---------------------------- MODULE Spec2Model ----------------------------
(***************************************************************************)
(* Model of the per-frame tracking pipeline of the driving dashboard:      *)
(*   - trackDetections / calculateIoU   (src/src/utils/yoloDetection.ts)   *)
(*   - the detectObjects animation-frame loop of the VideoFeed component   *)
(*     (src/unnamed/part_003)                                              *)
(*                                                                         *)
(* A JavaScript number is NaN, the empty tuple, or the rational n/d written *)
(* <<n, d>> with d >= 0 (d = 0 stands for +-Infinity), on which the        *)
(* operations are exact, or a binary64 value <<sign, m, e>>, on which every *)
(* operation rounds as the source's does.  The boxes of trackDetections   *)
(* and calculateIoU are rationals; the coordinates, areas, risks, densities *)
(* and scores of the detectObjects cycle are binary64 values.              *)
(***************************************************************************)
EXTENDS Integers, Sequences, FiniteSets, Bags, TLC

VARIABLES
    tracks,     \* the list returned by the last trackDetections call (next call's previousDetections)
    now,        \* Date.now() of the last trackDetections call, in ms
    prevIn,     \* previousDetections argument of the last call
    matchOf,    \* per current detection of the last call: index in prevIn of its bestMatch, 0 for null
    maxIssued,  \* largest trackId issued in the session before the last call
    fed         \* the boxes of the batches fed so far, one entry per call

trackVars == <<tracks, now, prevIn, matchOf, maxIssued, fed>>

VARIABLES
    videoSource,      \* React state videoSource: a file URL is set
    isWebcamActive,   \* React state isWebcamActive
    isPlaying,        \* React state isPlaying
    isModelLoaded,    \* React state isModelLoaded
    modelCurrent,     \* model.current holds a loaded model
    loadsPending,     \* number of loadModel() calls still awaiting cocoSsd.load()
    webcamRequest,    \* activateWebcam calls awaiting getUserMedia: a bag of the state their closure captured
    videoPaused,      \* the video element's paused attribute (TRUE too when it has ended)
    srcObject,        \* the video element has a webcam stream as srcObject
    requestAnimationFrameRef, \* requestAnimationFrameRef.current, 0 for null
    rafQueue,         \* animation-frame callbacks requested and neither run nor cancelled
    nextRafId,        \* the handle the next requestAnimationFrame call returns
    inFlight,         \* executions of detectObjects suspended at await model.current.detect(video)
    detections,       \* React state detections: the batch published last
    lastFrame,        \* how the last cycle of detectObjects that passed its guard ended
    legacyRoot,       \* the root renders inside a setter called outside an event handler (ReactDOM.render); with createRoot it renders in a later task
    pendingRender,    \* createRoot: the state a setter was called for outside an event handler and no render has shown yet
    pendingEffects    \* the effects the last render left to a later task, by their dependency

\* the variables of the video feed other than the detections state
feedVars == <<videoSource, isWebcamActive, isPlaying, isModelLoaded, modelCurrent,
              loadsPending, webcamRequest, videoPaused, srcObject,
              requestAnimationFrameRef, rafQueue, nextRafId, inFlight,
              lastFrame, legacyRoot, pendingRender, pendingEffects>>

loopVars == <<feedVars, detections>>

VARIABLES
    iouArgs,    \* the two boxes of a calculateIoU call
    iouResult   \* what the call returned, for both orders of the arguments

iouVars == <<iouArgs, iouResult>>

VARIABLES
    cycleIn,     \* the inputs of one cycle of detectObjects: the batch, the frame, the closure's detections
    cycleDone,   \* the cycle has run
    draws,       \* the values Math.random() returned in the cycle
    trafficFlow, \* React state trafficFlow
    laneData,    \* context state laneData
    canvas,      \* what drawDetections has drawn on the canvas over the video
    laneAgain    \* a second run of detectLanePosition on the same inputs

cycleVars == <<cycleIn, cycleDone, draws, trafficFlow, laneData, canvas, laneAgain>>

VARIABLES
    detectedVehicles, \* context state detectedVehicles
    isEnabled,        \* prop isEnabled of TrafficMonitoring
    highRiskCalls,    \* the vehicles onHighRiskVehicleDetected was invoked with by the last run of the effect
    effectRuns,       \* number of runs of the effect of TrafficMonitoring
    effectPending     \* a dependency of the effect has changed and the effect has not run since

monVars == <<detectedVehicles, isEnabled, highRiskCalls, effectRuns, effectPending>>

VARIABLES
    matchArgs,   \* a detection, a list of previous tracks and a threshold
    matchResult  \* the bestMatch found for them

matchVars == <<matchArgs, matchResult>>

VARIABLES
    streams,     \* per video stream: its track set, the list its last trackDetections call returned
    streamLog    \* per video stream: the batch, the time and the result of each of its calls

streamVars == <<streams, streamLog>>

VARIABLES
    heap,        \* the objects and arrays that exist: heap[r] is the one with reference r
    before,      \* the heap and the arguments of the last trackDetections call as the call began
    returned     \* the reference of the array the last trackDetections call returned

heapVars == <<heap, before, returned>>

VARIABLES
    flowArgs,    \* the detection list the two traffic-flow functions are given
    flowResult   \* what analyzeTrafficFlow published and detectTrafficFlow returned

flowVars == <<flowArgs, flowResult>>

VARIABLES
    distanceArgs,    \* two detections of one frame, and the frame
    distanceResult   \* the distance computed for each of the two

distanceVars == <<distanceArgs, distanceResult>>

VARIABLES
    app,                     \* the hooks of Index, NavigationMap and
                             \* EmergencyFeature as last rendered, and the
                             \* refs
    updateQueue,             \* for every hook, the updates waiting for a
                             \* render and the state they apply to
    mapEffects,              \* the effects of NavigationMap the last
                             \* render left to run
    listener,                \* the values the registered listeners read
    destinationAtActivation, \* navigationState.destination when emergency
                             \* navigation was last activated
    clicksLeft,              \* the clicks the session still takes
    editsLeft,               \* the edits of a field it still takes
    ticksLeft                \* the ticks of the interval it still takes

navigationVars ==
    <<app, updateQueue, mapEffects, listener, destinationAtActivation,
      clicksLeft, editsLeft, ticksLeft>>

\* the variables of the specifications that follow the traffic-flow calls
extraVars == <<distanceVars, navigationVars>>

\* the variables of the calls of pure functions and of the published outputs
pureVars == <<iouVars, cycleVars, monVars, matchVars, streamVars, heapVars, flowVars, extraVars>>

vars == <<trackVars, loopVars, pureVars>>

-----------------------------------------------------------------------------
(* Bounds of the model *)

\* largest number of current detections in one frame
MaxDet == 2

\* length of a tracking session, in ms
MaxTime == 500

\* the calls of trackDetections two streams make in a run
MaxStreamFrames == 4

\* number of requestAnimationFrame calls in a run of the video feed
MaxRaf == 4

\* number of model loads in flight at once
MaxLoads == 2

\* number of activateWebcam calls awaiting getUserMedia at once
MaxRequests == 2

\* size of the largest detection batch of a cycle
ManyDetections == 1000

\* the longest list of one class given to the traffic-flow functions
MaxVehicles == 12

\* runs of the effect of TrafficMonitoring in a behaviour
MaxEffectRuns == 3

\* length of the longest list of previous tracks a detection is matched against
MaxPrevious == 3

-----------------------------------------------------------------------------
(* Natural numbers of any size: the sequence of the digits in base 2^15,  *)
(* the lowest first, without leading zero digits; <<>> is 0               *)

LimbBase == 2^15

RECURSIVE NatTrim(_)
NatTrim(a) ==
    IF a = <<>> THEN <<>>
    ELSE IF a[Len(a)] = 0 THEN NatTrim(SubSeq(a, 1, Len(a) - 1)) ELSE a

\* -1, 0 or 1 as a < b, a = b or a > b
RECURSIVE NatCmpFrom(_, _, _)
NatCmpFrom(a, b, i) ==
    IF i = 0 THEN 0
    ELSE IF a[i] < b[i] THEN -1
    ELSE IF a[i] > b[i] THEN 1
    ELSE NatCmpFrom(a, b, i - 1)

NatCmp(a, b) ==
    IF Len(a) < Len(b) THEN -1
    ELSE IF Len(a) > Len(b) THEN 1
    ELSE NatCmpFrom(a, b, Len(a))

RECURSIVE NatAddFrom(_, _, _, _)
NatAddFrom(a, b, i, carry) ==
    IF i > Len(a) /\ i > Len(b)
    THEN IF carry = 0 THEN <<>> ELSE <<carry>>
    ELSE LET s == (IF i <= Len(a) THEN a[i] ELSE 0)
                  + (IF i <= Len(b) THEN b[i] ELSE 0) + carry
         IN  <<s % LimbBase>> \o NatAddFrom(a, b, i + 1, s \div LimbBase)

NatAdd(a, b) == NatAddFrom(a, b, 1, 0)

\* a - b for a >= b
RECURSIVE NatSubFrom(_, _, _, _)
NatSubFrom(a, b, i, borrow) ==
    IF i > Len(a) THEN <<>>
    ELSE LET s == a[i] - (IF i <= Len(b) THEN b[i] ELSE 0) - borrow
         IN  IF s < 0
             THEN <<s + LimbBase>> \o NatSubFrom(a, b, i + 1, 1)
             ELSE <<s>> \o NatSubFrom(a, b, i + 1, 0)

NatSub(a, b) == NatTrim(NatSubFrom(a, b, 1, 0))

\* a * k for a digit k
RECURSIVE NatMulSmallFrom(_, _, _, _)
NatMulSmallFrom(a, k, i, carry) ==
    IF i > Len(a)
    THEN IF carry = 0 THEN <<>> ELSE <<carry>>
    ELSE LET p == a[i] * k + carry
         IN  <<p % LimbBase>> \o NatMulSmallFrom(a, k, i + 1, p \div LimbBase)

NatMulSmall(a, k) == IF k = 0 THEN <<>> ELSE NatMulSmallFrom(a, k, 1, 0)

\* a * LimbBase^n
NatShiftLimbs(a, n) ==
    IF a = <<>> THEN <<>> ELSE [i \in 1..n |-> 0] \o a

RECURSIVE NatMulFrom(_, _, _)
NatMulFrom(a, b, i) ==
    IF i > Len(b) THEN <<>>
    ELSE NatAdd(NatMulSmall(a, b[i]),
                NatShiftLimbs(NatMulFrom(a, b, i + 1), 1))

NatMul(a, b) == NatMulFrom(a, b, 1)

\* a * 2^k
NatShl(a, k) == NatShiftLimbs(NatMulSmall(a, 2^(k % 15)), k \div 15)

\* the quotient of a by the digit k > 0, from the highest digit down
RECURSIVE NatDivSmallFrom(_, _, _, _)
NatDivSmallFrom(a, k, i, rem) ==
    IF i = 0 THEN <<>>
    ELSE LET n == rem * LimbBase + a[i]
         IN  NatDivSmallFrom(a, k, i - 1, n % k) \o <<n \div k>>

\* floor(a / 2^k)
NatShr(a, k) ==
    LET high == SubSeq(a, (k \div 15) + 1, Len(a))
    IN  NatTrim(NatDivSmallFrom(high, 2^(k % 15), Len(high), 0))

\* the number of binary digits of a digit n
BitLenSmall(n) ==
    IF n < 256
    THEN IF n < 16
         THEN IF n < 4 THEN (IF n < 2 THEN n ELSE 2) ELSE (IF n < 8 THEN 3 ELSE 4)
         ELSE IF n < 64 THEN (IF n < 32 THEN 5 ELSE 6) ELSE (IF n < 128 THEN 7 ELSE 8)
    ELSE IF n < 4096
         THEN IF n < 1024 THEN (IF n < 512 THEN 9 ELSE 10)
              ELSE (IF n < 2048 THEN 11 ELSE 12)
         ELSE IF n < 16384 THEN (IF n < 8192 THEN 13 ELSE 14) ELSE 15

\* the number of binary digits of a

NatBitLen(a) ==
    IF a = <<>> THEN 0 ELSE 15 * (Len(a) - 1) + BitLenSmall(a[Len(a)])

NatIsOdd(a) == a # <<>> /\ a[1] % 2 = 1

\* the digit of a of weight LimbBase^(i - 1)
NatDigit(a, i) == IF i <= Len(a) THEN a[i] ELSE 0

MinInt(m, n) == IF m < n THEN m ELSE n

\* the quotient q is lowered while its product p with b exceeds r: the pair
\* of the quotient and the remainder of r by b
RECURSIVE NatDivModLower(_, _, _, _)
NatDivModLower(r, b, q, p) ==
    IF NatCmp(p, r) > 0 THEN NatDivModLower(r, b, q - 1, NatSub(p, b))
    ELSE <<q, NatSub(r, p)>>

NatDivModEstimate(r, b, q) == NatDivModLower(r, b, q, NatMulSmall(b, q))

\* long division of r by b, for r < b * LimbBase and a b whose highest digit
\* is at least LimbBase / 2: the quotient is a digit, estimated from the two
\* highest digits of r and at most 2 too large
NatDivModDigit(r, b) ==
    NatDivModEstimate(r, b,
        MinInt(LimbBase - 1,
               (NatDigit(r, Len(b) + 1) * LimbBase + NatDigit(r, Len(b)))
                   \div b[Len(b)]))

\* long division by such a b, one digit of a at a time from digit j down,
\* from the quotient q and the remainder r of the digits above them: the
\* pair of quotient and remainder.  The remainder is below b at every step.
RECURSIVE NatDivModFrom(_, _, _, _, _)
NatDivModStep(a, b, j, q, low) ==
    NatDivModFrom(a, b, j - 1, <<low[1]>> \o q, low[2])

NatDivModFrom(a, b, j, q, r) ==
    IF j = 0 \/ NatCmp(r, b) >= 0 THEN <<NatTrim(q), r>>
    ELSE NatDivModStep(a, b, j, q, NatDivModDigit(NatTrim(<<a[j]>> \o r), b))

NatDivModUnscaled(qr, scale) == <<qr[1], NatShr(qr[2], scale)>>

NatDivModScaled(a, b, scale) ==
    NatDivModUnscaled(NatDivModFrom(a, b, Len(a), <<>>, <<>>), scale)

\* the quotient and the remainder of a by b > 0: both are scaled to bring
\* the highest digit of b to LimbBase / 2 at least
NatDivMod(a, b) ==
    NatDivModScaled(NatShl(a, 15 - BitLenSmall(b[Len(b)])),
                    NatShl(b, 15 - BitLenSmall(b[Len(b)])),
                    15 - BitLenSmall(b[Len(b)]))

-----------------------------------------------------------------------------
(* IEEE 754 binary64 values: <<sign, m, e>> is sign * m * 2^e with sign 1   *)
(* or -1 and m a natural number of exactly 53 binary digits; <<sign, <<>>,   *)
(* 0>> is zero and <<sign, <<>>, 1>> an infinity.  The range of the          *)
(* exponent is not bounded: no operation overflows or underflows.            *)

IsDouble(a) == Len(a) = 3

DoubleZero == <<1, <<>>, 0>>

DoubleInfinity(sign) == <<sign, <<>>, 1>>

DoubleIsZero(a) == a[2] = <<>> /\ a[3] = 0

DoubleIsInfinite(a) == a[2] = <<>> /\ a[3] = 1

\* the significand q of 53 digits, raised by one, may have 54
RoundCarry(sign, e, q) ==
    IF NatBitLen(q) = 54 THEN <<sign, NatShr(q, 1), e + 1>> ELSE <<sign, q, e>>

\* round to nearest, ties to even: q is the significand cut off, half tells
\* that the first digit cut off is 1, more that a lower one is not 0
RoundUp(sign, e, q, half, more) ==
    IF half /\ (more \/ NatIsOdd(q))
    THEN RoundCarry(sign, e, NatAdd(q, <<1>>))
    ELSE <<sign, q, e>>

\* q1 is n without its k1 lowest binary digits: the 53 digits kept and the
\* first digit cut off
RoundCut(sign, n, e, inexact, k1, q1) ==
    RoundUp(sign, e, NatShr(q1, 1), NatIsOdd(q1), inexact \/ NatShl(q1, k1) # n)

RoundLen(sign, n, e, inexact, len) ==
    IF len = 0 THEN <<sign, <<>>, 0>>
    ELSE IF len <= 53 THEN <<sign, NatShl(n, 53 - len), e - (53 - len)>>
    ELSE RoundCut(sign, n, e + (len - 53), inexact, len - 54,
                  NatShr(n, len - 54))

\* the double nearest to sign * (n + f) * 2^e, ties to the even one, where
\* 0 < f < 1 if inexact and f = 0 otherwise (inexact only for an n of at
\* least 54 binary digits)
RoundToDouble(sign, n, e, inexact) ==
    RoundLen(sign, n, e, inexact, NatBitLen(n))

\* the natural number n in digits
RECURSIVE NatOfInt(_)
NatOfInt(n) ==
    IF n = 0 THEN <<>> ELSE <<n % LimbBase>> \o NatOfInt(n \div LimbBase)

\* the double of the integer n
DoubleOfInt(n) ==
    RoundToDouble(IF n < 0 THEN -1 ELSE 1, NatOfInt(IF n < 0 THEN -n ELSE n), 0, FALSE)

\* -1, 0 or 1 as |a| < |b|, |a| = |b| or |a| > |b|, for finite a and b
DoubleCmpAbs(a, b) ==
    IF DoubleIsZero(a) THEN IF DoubleIsZero(b) THEN 0 ELSE -1
    ELSE IF DoubleIsZero(b) THEN 1
    ELSE IF a[3] < b[3] THEN -1
    ELSE IF a[3] > b[3] THEN 1
    ELSE NatCmp(a[2], b[2])

\* -1, 0 or 1 as a < b, a = b or a > b
DoubleCmp(a, b) ==
    IF DoubleIsInfinite(a) \/ DoubleIsInfinite(b)
    THEN LET va == IF DoubleIsInfinite(a) THEN a[1] ELSE 0
             vb == IF DoubleIsInfinite(b) THEN b[1] ELSE 0
         IN  IF va < vb THEN -1 ELSE IF va > vb THEN 1 ELSE 0
    ELSE IF DoubleIsZero(a) /\ DoubleIsZero(b) THEN 0
    ELSE IF DoubleIsZero(a) THEN -b[1]
    ELSE IF DoubleIsZero(b) THEN a[1]
    ELSE IF a[1] # b[1] THEN a[1]
    ELSE a[1] * DoubleCmpAbs(a, b)

DyadicDifference(sa, na, sb, nb, e, c) ==
    IF c = 0 THEN <<1, <<>>, 0>>
    ELSE IF c > 0 THEN <<sa, NatSub(na, nb), e>>
    ELSE <<sb, NatSub(nb, na), e>>

\* the sum of sa * na * 2^e and sb * nb * 2^e
DyadicAligned(sa, na, sb, nb, e) ==
    IF sa = sb THEN <<sa, NatAdd(na, nb), e>>
    ELSE DyadicDifference(sa, na, sb, nb, e, NatCmp(na, nb))

\* sign * n * 2^e for the exact sum of two such numbers, n of any length
DyadicPlus(a, b) ==
    IF a[2] = <<>> THEN (IF b[2] = <<>> /\ a[1] = 1 THEN a ELSE b)
    ELSE IF b[2] = <<>> THEN a
    ELSE DyadicAligned(a[1], NatShl(a[2], a[3] - MinInt(a[3], b[3])),
                       b[1], NatShl(b[2], b[3] - MinInt(a[3], b[3])),
                       MinInt(a[3], b[3]))

\* the double nearest to the number sum[1] * sum[2] * 2^sum[3]
DoubleRounded(sum) == RoundToDouble(sum[1], sum[2], sum[3], FALSE)

DoublePlus(a, b) ==
    IF DoubleIsInfinite(a) \/ DoubleIsInfinite(b)
    THEN IF DoubleIsInfinite(a) /\ DoubleIsInfinite(b) /\ a[1] # b[1] THEN <<>>
         ELSE IF DoubleIsInfinite(a) THEN a ELSE b
    ELSE DoubleRounded(DyadicPlus(a, b))

DoubleNegate(a) == <<-a[1], a[2], a[3]>>

DoubleMinus(a, b) == DoublePlus(a, DoubleNegate(b))

DoubleTimes(a, b) ==
    IF DoubleIsInfinite(a) \/ DoubleIsInfinite(b)
    THEN IF DoubleIsZero(a) \/ DoubleIsZero(b) THEN <<>>
         ELSE DoubleInfinity(a[1] * b[1])
    ELSE IF DoubleIsZero(a) \/ DoubleIsZero(b) THEN <<a[1] * b[1], <<>>, 0>>
    ELSE RoundToDouble(a[1] * b[1], NatMul(a[2], b[2]), a[3] + b[3], FALSE)

\* the double nearest to sign * (qr[1] + qr[2] / b) * 2^e for the quotient
\* and the remainder qr of a division by b
DoubleQuotient(sign, e, qr) == RoundToDouble(sign, qr[1], e, qr[2] # <<>>)

DoubleDivide(a, b) ==
    IF DoubleIsInfinite(a)
    THEN IF DoubleIsInfinite(b) THEN <<>> ELSE DoubleInfinity(a[1] * b[1])
    ELSE IF DoubleIsInfinite(b) THEN <<a[1] * b[1], <<>>, 0>>
    ELSE IF DoubleIsZero(b)
    THEN IF DoubleIsZero(a) THEN <<>> ELSE DoubleInfinity(a[1] * b[1])
    ELSE IF DoubleIsZero(a) THEN <<a[1] * b[1], <<>>, 0>>
    ELSE DoubleQuotient(a[1] * b[1], a[3] - b[3] - 56,
                        NatDivMod(NatShl(a[2], 56), b[2]))

\* the largest r with r * r <= t for an integer t below 2^30, the binary
\* digits of weight 2^bit and below being added to r
RECURSIVE IntSqrtFrom(_, _, _)
IntSqrtFrom(t, r, bit) ==
    IF bit < 0 THEN r
    ELSE IF (r + 2^bit) * (r + 2^bit) <= t
    THEN IntSqrtFrom(t, r + 2^bit, bit - 1)
    ELSE IntSqrtFrom(t, r, bit - 1)

\* x when the next approximation y is no smaller, the root of n otherwise
RECURSIVE NatSqrtNewton(_, _)
NatSqrtNext(n, x, y) == IF NatCmp(y, x) >= 0 THEN x ELSE NatSqrtNewton(n, y)

\* the largest r with r * r <= n, by the iteration x -> (x + n / x) / 2 from
\* an x that is not below the root; each approximation is bound as a value
\* before it is compared
NatSqrtNewton(n, x) ==
    CHOOSE root \in
        { NatSqrtNext(m, w, y) :
              y \in {NatShr(NatAdd(x, NatDivMod(n, x)[1]), 1)},
              w \in {x}, m \in {n} } : TRUE

\* the largest r with r * r <= n for n of two digits or more: the iteration
\* starts above the root, from the root of the two leading digits
NatSqrt(n) ==
    NatSqrtNewton(n, NatShl(NatOfInt(IntSqrtFrom(n[Len(n)] * LimbBase + n[Len(n) - 1], 0, 14) + 1),
                            (15 * (Len(n) - 2) + 1) \div 2))

\* the double nearest to sqrt(n) * 2^e for the integer square root r of n
DoubleRoot(n, e, r) == RoundToDouble(1, r, e, NatMul(r, r) # n)

\* the square root of m * 2^e, m * 2^shift having 108 or 109 binary digits
\* and e - shift being even
DoubleSqrtShifted(m, e, shift) ==
    CHOOSE root \in
        { DoubleRoot(n, (e - shift) \div 2, NatSqrt(n)) :
              n \in {NatShl(m, shift)} } : TRUE

\* Math.sqrt of a double: the root rounded once, NaN below zero
DoubleSqrt(a) ==
    IF a[2] = <<>> THEN (IF a[1] < 0 /\ a[3] = 1 THEN <<>> ELSE a)
    ELSE IF a[1] < 0 THEN <<>>
    ELSE DoubleSqrtShifted(a[2], a[3], IF (a[3] - 55) % 2 = 0 THEN 55 ELSE 56)

\* the integer a natural number in digits stands for
RECURSIVE NatToInt(_)
NatToInt(n) == IF n = <<>> THEN 0 ELSE n[1] + LimbBase * NatToInt(Tail(n))

\* floor of -(m * 2^(-k)), q being floor(m / 2^k)
DoubleFloorBelow(m, k, q) ==
    IF NatShl(q, k) = m THEN -NatToInt(q) ELSE -NatToInt(q) - 1

\* Math.floor of a finite double, as an integer
DoubleFloorInt(a) ==
    IF a[2] = <<>> THEN 0
    ELSE IF a[3] >= 0 THEN a[1] * NatToInt(NatShl(a[2], a[3]))
    ELSE IF a[1] > 0 THEN NatToInt(NatShr(a[2], -a[3]))
    ELSE DoubleFloorBelow(a[2], -a[3], NatShr(a[2], -a[3]))

\* the double nearest to the number a given as <<n, d>>: the value of the
\* decimal literal n/d, since n and d are exact and the division rounds
\* once
DoubleOf(a) ==
    IF IsDouble(a) THEN a
    ELSE IF a[2] = 1 THEN DoubleOfInt(a[1])
    ELSE DoubleDivide(DoubleOfInt(a[1]), DoubleOfInt(a[2]))

-----------------------------------------------------------------------------
(* JavaScript numbers: NaN, a number <<n, d>> standing for n/d on which the *)
(* operations are computed exactly (d = 0 for an infinity), or a binary64   *)
(* value on which every operation rounds.  The exact form is used where the *)
(* source's double arithmetic is exact too up to a last division.  The two  *)
(* operands of an operation are of one form.                                *)

NaN == <<>>

Num(n) == <<n, 1>>

IsNaN(a) == Len(a) = 0

Plus(a, b) ==
    IF IsNaN(a) \/ IsNaN(b) THEN NaN
    ELSE IF IsDouble(a) THEN DoublePlus(a, b)
    ELSE <<a[1] * b[2] + b[1] * a[2], a[2] * b[2]>>

Minus(a, b) ==
    IF IsNaN(a) \/ IsNaN(b) THEN NaN
    ELSE IF IsDouble(a) THEN DoubleMinus(a, b)
    ELSE <<a[1] * b[2] - b[1] * a[2], a[2] * b[2]>>

Times(a, b) ==
    IF IsNaN(a) \/ IsNaN(b) THEN NaN
    ELSE IF IsDouble(a) THEN DoubleTimes(a, b)
    ELSE <<a[1] * b[1], a[2] * b[2]>>

\* a / b: 0/0 is NaN, x/0 is an infinity
Divide(a, b) ==
    IF IsNaN(a) \/ IsNaN(b) THEN NaN
    ELSE IF IsDouble(a) THEN DoubleDivide(a, b)
    ELSE LET n == a[1] * b[2]
             d == a[2] * b[1]
         IN  IF d = 0
             THEN IF n = 0 THEN NaN ELSE <<IF n > 0 THEN 1 ELSE -1, 0>>
             ELSE IF d < 0 THEN <<-n, -d>> ELSE <<n, d>>

\* a < b: false when either side is NaN
Less(a, b) ==
    /\ ~IsNaN(a)
    /\ ~IsNaN(b)
    /\ IF IsDouble(a) THEN DoubleCmp(a, b) < 0
       ELSE a[1] * b[2] < b[1] * a[2]

\* a > b: false when either side is NaN
Greater(a, b) == Less(b, a)

\* a >= b: false when either side is NaN
GreaterEq(a, b) ==
    /\ ~IsNaN(a)
    /\ ~IsNaN(b)
    /\ IF IsDouble(a) THEN DoubleCmp(a, b) >= 0
       ELSE a[1] * b[2] >= b[1] * a[2]

\* Math.sqrt of a binary64 value
MathSqrt(a) == IF IsNaN(a) THEN NaN ELSE DoubleSqrt(a)

\* the binary64 value a is -0
IsMinusZero(a) == IsDouble(a) /\ DoubleIsZero(a) /\ a[1] = -1

\* Math.max: NaN when either argument is NaN, +0 above -0
MathMax(a, b) ==
    IF IsNaN(a) \/ IsNaN(b) THEN NaN
    ELSE IF Less(a, b) \/ (IsMinusZero(a) /\ ~Less(b, a)) THEN b ELSE a

\* Math.min: NaN when either argument is NaN, -0 below +0
MathMin(a, b) ==
    IF IsNaN(a) \/ IsNaN(b) THEN NaN
    ELSE IF Less(b, a) \/ (IsMinusZero(b) /\ ~Less(a, b)) THEN b ELSE a

-----------------------------------------------------------------------------
(* calculateIoU *)

calculateIoU(bbox1, bbox2) ==
    LET x1 == bbox1[1]
        y1 == bbox1[2]
        w1 == bbox1[3]
        h1 == bbox1[4]
        x2 == bbox2[1]
        y2 == bbox2[2]
        w2 == bbox2[3]
        h2 == bbox2[4]
        x1max == Plus(x1, w1)
        y1max == Plus(y1, h1)
        x2max == Plus(x2, w2)
        y2max == Plus(y2, h2)
        xmin == MathMax(x1, x2)
        ymin == MathMax(y1, y2)
        xmax == MathMin(x1max, x2max)
        ymax == MathMin(y1max, y2max)
        intersectionArea == Times(Minus(xmax, xmin), Minus(ymax, ymin))
        area1 == Times(w1, h1)
        area2 == Times(w2, h2)
    IN  IF Less(xmax, xmin) \/ Less(ymax, ymin)
        THEN Num(0)
        ELSE Divide(intersectionArea, Minus(Plus(area1, area2), intersectionArea))

-----------------------------------------------------------------------------
(* trackDetections *)

\* default parameters of trackDetections
DefaultMaxAge == 5

DefaultIouThreshold == <<1, 2>>

\* "Get the highest track ID from previous detections": the forEach of lines
\* 246-250; an absent (undefined) trackId is written 0, which is falsy as well
RECURSIVE ScanNextTrackId(_, _, _)
ScanNextTrackId(previousDetections, i, nextTrackId) ==
    IF i > Len(previousDetections) THEN nextTrackId
    ELSE ScanNextTrackId(previousDetections, i + 1,
            IF previousDetections[i].trackId # 0
               /\ previousDetections[i].trackId >= nextTrackId
            THEN previousDetections[i].trackId + 1
            ELSE nextTrackId)

InitialNextTrackIdFixedAtOne(previousDetections) == 1

InitialNextTrackIdAcrossStreams(previousDetections) ==
    ScanNextTrackId(streams["A"] \o streams["B"], 1, 1)

InitialNextTrackId(previousDetections) ==
    ScanNextTrackId(previousDetections, 1, 1)

RECURSIVE ScanBestMatchLastOfTies(_, _, _, _, _, _)
ScanBestMatchLastOfTies(detection, previousDetections, iouThreshold, i, bestMatch, bestIoU) ==
    IF i > Len(previousDetections) THEN bestMatch
    ELSE LET iou == calculateIoU(detection.bbox, previousDetections[i].bbox)
         IN  IF Greater(iou, iouThreshold) /\ GreaterEq(iou, bestIoU)
             THEN ScanBestMatchLastOfTies(detection, previousDetections,
                                          iouThreshold, i + 1, i, iou)
             ELSE ScanBestMatchLastOfTies(detection, previousDetections,
                                          iouThreshold, i + 1, bestMatch, bestIoU)

\* the inner forEach of lines 258-264: the index in previousDetections of
\* bestMatch, 0 for null
RECURSIVE ScanBestMatch(_, _, _, _, _, _)
ScanBestMatch(detection, previousDetections, iouThreshold, i, bestMatch, bestIoU) ==
    IF i > Len(previousDetections) THEN bestMatch
    ELSE LET iou == calculateIoU(detection.bbox, previousDetections[i].bbox)
         IN  IF Greater(iou, iouThreshold) /\ Greater(iou, bestIoU)
             THEN ScanBestMatch(detection, previousDetections, iouThreshold,
                                i + 1, i, iou)
             ELSE ScanBestMatch(detection, previousDetections, iouThreshold,
                                i + 1, bestMatch, bestIoU)

BestMatch(detection, previousDetections, iouThreshold) ==
    ScanBestMatch(detection, previousDetections, iouThreshold, 1, 0, Num(0))

\* the calls of calculateIoU one trackDetections call makes (line 259): one
\* for every pair <<k, j>> of a current detection and a previous entry
IoUCalls(currentDetections, previousDetections) ==
    (1..Len(currentDetections)) \X (1..Len(previousDetections))

\* {...detection, trackId, framesDetected, lastSeen}
Tracked(detection, trackId, framesDetected, lastSeen) ==
    [id |-> detection.id, class |-> detection.class, bbox |-> detection.bbox,
     trackId |-> trackId, framesDetected |-> framesDetected,
     lastSeen |-> lastSeen]

UpdatedTrackNoIncrement(detection, bestMatch, t) ==
    Tracked(detection, bestMatch.trackId, bestMatch.framesDetected, t)

UpdatedTrackKeepsOldBox(detection, bestMatch, t) ==
    Tracked([detection EXCEPT !.bbox = bestMatch.bbox], bestMatch.trackId,
            bestMatch.framesDetected + 1, t)

\* a variant that counts a matched track from 1 again
UpdatedTrackRestart(detection, bestMatch, t) ==
    Tracked(detection, bestMatch.trackId, 1, t)

\* "Update existing track"
UpdatedTrack(detection, bestMatch, t) ==
    Tracked(detection, bestMatch.trackId, bestMatch.framesDetected + 1, t)

\* "Create new track"
NewTrack(detection, nextTrackId, t) ==
    Tracked(detection, nextTrackId, 1, t)

\* a variant in which the counter is not incremented
RECURSIVE MapCurrentNoIncrement(_, _, _, _, _, _)
MapCurrentNoIncrement(currentDetections, previousDetections, iouThreshold, t, i, nextTrackId) ==
    IF i > Len(currentDetections) THEN <<>>
    ELSE LET m == BestMatch(currentDetections[i], previousDetections, iouThreshold)
         IN  IF m # 0
             THEN <<UpdatedTrack(currentDetections[i], previousDetections[m], t)>>
                  \o MapCurrentNoIncrement(currentDetections, previousDetections,
                                           iouThreshold, t, i + 1, nextTrackId)
             ELSE <<NewTrack(currentDetections[i], nextTrackId, t)>>
                  \o MapCurrentNoIncrement(currentDetections, previousDetections,
                                           iouThreshold, t, i + 1, nextTrackId)

\* currentDetections.map(...) of lines 253-283, with the nextTrackId++ counter
RECURSIVE MapCurrent(_, _, _, _, _, _)
MapCurrent(currentDetections, previousDetections, iouThreshold, t, i, nextTrackId) ==
    IF i > Len(currentDetections) THEN <<>>
    ELSE LET m == BestMatch(currentDetections[i], previousDetections, iouThreshold)
         IN  IF m # 0
             THEN <<UpdatedTrack(currentDetections[i], previousDetections[m], t)>>
                  \o MapCurrent(currentDetections, previousDetections,
                                iouThreshold, t, i + 1, nextTrackId)
             ELSE <<NewTrack(currentDetections[i], nextTrackId, t)>>
                  \o MapCurrent(currentDetections, previousDetections,
                                iouThreshold, t, i + 1, nextTrackId + 1)

StillValidWithoutFrameRate(prevDet, t, maxAge) ==
    Less(Num(t - prevDet.lastSeen), Times(Num(maxAge), Num(1000)))

\* now - prevDet.lastSeen < maxAge * 1000/30
StillValid(prevDet, t, maxAge) ==
    Less(Num(t - prevDet.lastSeen),
         Divide(Times(Num(maxAge), Num(1000)), Num(30)))

\* the forEach of lines 286-298; wasMatched looks at the list as it grows
RECURSIVE CarryForward(_, _, _, _, _)
CarryForward(trackedDetections, previousDetections, maxAge, t, i) ==
    IF i > Len(previousDetections) THEN trackedDetections
    ELSE LET prevDet == previousDetections[i]
             wasMatched == \E k \in 1..Len(trackedDetections) :
                               trackedDetections[k].trackId = prevDet.trackId
         IN  CarryForward(
                 IF ~wasMatched /\ StillValid(prevDet, t, maxAge)
                 THEN Append(trackedDetections, prevDet)
                 ELSE trackedDetections,
                 previousDetections, maxAge, t, i + 1)

\* trackDetections, with the value of Date.now() as the parameter t
trackDetections(currentDetections, previousDetections, maxAge, iouThreshold, t) ==
    CarryForward(
        MapCurrent(currentDetections, previousDetections, iouThreshold, t, 1,
                   InitialNextTrackId(previousDetections)),
        previousDetections, maxAge, t, 1)

-----------------------------------------------------------------------------
(* A tracking session: every output is the next call's previous set *)

\* the detections a frame's batch is drawn from
DetPalette ==
    << [class |-> "car",    bbox |-> <<Num(10), Num(10), Num(50), Num(50)>>],
       [class |-> "car",    bbox |-> <<Num(12), Num(11), Num(50), Num(50)>>],
       [class |-> "truck",  bbox |-> <<Num(500), Num(500), Num(50), Num(50)>>],
       [class |-> "person", bbox |-> <<Num(10), Num(10), Num(50), Num(100)>>],
       [class |-> "car",    bbox |-> <<Num(10), Num(10), Num(-50), Num(50)>>] >>

\* the steps of Date.now() between two calls, in ms: the last step inside
\* the default window of 5 * 1000/30 ms and the first step outside it
TimeSteps == {166, 167}

\* the members of the set S of numbers, in increasing order
RECURSIVE Ascending(_)
Ascending(S) ==
    IF S = {} THEN <<>>
    ELSE LET m == CHOOSE x \in S : \A y \in S : x <= y
         IN  <<m>> \o Ascending(S \ {m})

\* the batches of a frame: at most MaxDet entries of the palette, in the
\* order of the palette
BatchPicks ==
    {Ascending(S) : S \in {T \in SUBSET (1..Len(DetPalette)) : Cardinality(T) <= MaxDet}}

\* the batch of detections with the palette entries picks[1], picks[2], ...;
\* a detection's id is its index in the batch
Batch(picks) ==
    [i \in 1..Len(picks) |->
        [id |-> i - 1, class |-> DetPalette[picks[i]].class,
         bbox |-> DetPalette[picks[i]].bbox]]

RECURSIVE MaxTrackId(_, _)
MaxTrackId(list, i) ==
    IF i > Len(list) THEN 0
    ELSE LET rest == MaxTrackId(list, i + 1)
         IN  IF list[i].trackId > rest THEN list[i].trackId ELSE rest

TrackInit ==
    /\ tracks = <<>>
    /\ now = 0
    /\ prevIn = <<>>
    /\ matchOf = <<>>
    /\ maxIssued = 0
    /\ fed = <<>>

\* one frame: trackDetections(currentDetections, tracks) at time now + dt
Frame ==
    /\ \E picks \in BatchPicks, dt \in TimeSteps :
          /\ now + dt <= MaxTime
          /\ LET out == trackDetections(Batch(picks), tracks, DefaultMaxAge,
                                     DefaultIouThreshold, now + dt)
             IN  /\ tracks' = out
                 /\ now' = now + dt
                 /\ prevIn' = tracks
                 /\ matchOf' = [k \in 1..Len(picks) |->
                                 BestMatch(Batch(picks)[k], tracks,
                                           DefaultIouThreshold)]
                 /\ fed' = Append(fed, picks)
                 /\ maxIssued' = IF MaxTrackId(tracks, 1) > maxIssued
                                 THEN MaxTrackId(tracks, 1) ELSE maxIssued
    /\ UNCHANGED <<loopVars, pureVars>>

-----------------------------------------------------------------------------
(* The VideoFeed component: the detectObjects loop and what starts and    *)
(* stops it.  The state variables hold the values of the last render.  A  *)
(* function closes over the state of the render that created it: a       *)
(* closure is the pair of isPlaying and isModelLoaded that detectObjects  *)
(* reads.  The root is of one of two kinds.                               *)
(*   createRoot: an event handler, the render it causes and the effects   *)
(*   of that render are one step; a setter called outside an event        *)
(*   handler (after an await) is rendered in a later task, a step of its  *)
(*   own, and the effects of that render in a task after it.              *)
(*   ReactDOM.render: a setter called outside an event handler renders    *)
(*   before it returns, and an event handler's setters render when the    *)
(*   handler returns; the effects of a render are left to a later task.   *)
(* Under either root the effects a render left run in a step of their     *)
(* own, and before that when another render begins.                       *)

Closure(playing, loaded) == [isPlaying |-> playing, isModelLoaded |-> loaded]

\* the video and canvas elements are rendered (videoRef.current and
\* canvasRef.current are set)
Mounted == videoSource \/ isWebcamActive

\* requestAnimationFrameRef.current, the pending callbacks and the next handle
RafState ==
    [ref |-> requestAnimationFrameRef, queue |-> rafQueue, next |-> nextRafId]

\* if (ref.current) cancelAnimationFrame(ref.current)
Cancel(R) ==
    IF R.ref # 0
    THEN [R EXCEPT !.queue = {e \in R.queue : e.id # R.ref}]
    ELSE R

\* if (ref.current) { cancelAnimationFrame(ref.current); ref.current = null }
CancelAndClear(R) ==
    IF R.ref # 0
    THEN [R EXCEPT !.queue = {e \in R.queue : e.id # R.ref}, !.ref = 0]
    ELSE R

\* ref.current = requestAnimationFrame(detectObjects), detectObjects being
\* the function of the render with the state cl
Request(R, cl) ==
    [ref |-> R.next,
     queue |-> R.queue \cup {[id |-> R.next, cl |-> cl]},
     next |-> R.next + 1]

startObjectDetection(R, cl) == Request(Cancel(R), cl)

SetRaf(R) ==
    /\ R.next <= MaxRaf + 1
    /\ requestAnimationFrameRef' = R.ref
    /\ rafQueue' = R.queue
    /\ nextRafId' = R.next

\* what model.current.detect(video) can resolve to: no prediction, or a car
\* above the score of 0.5, a person below it and a truck at it
PredictionSets ==
    { <<>>,
      << [class |-> "car", score |-> <<9, 10>>,
          bbox |-> <<Num(10), Num(10), Num(50), Num(50)>>],
         [class |-> "person", score |-> <<3, 10>>,
          bbox |-> <<Num(12), Num(11), Num(50), Num(50)>>],
         [class |-> "truck", score |-> <<1, 2>>,
          bbox |-> <<Num(500), Num(500), Num(50), Num(50)>>] >> }

\* predictions.filter(pred => pred.score >= 0.5)
RECURSIVE FilterByScore(_, _)
FilterByScore(predictions, i) ==
    IF i > Len(predictions) THEN <<>>
    ELSE IF GreaterEq(predictions[i].score, <<1, 2>>)
         THEN <<predictions[i]>> \o FilterByScore(predictions, i + 1)
         ELSE FilterByScore(predictions, i + 1)

\* detectedObjects: the filtered predictions, id = index in the filtered list
DetectedObjects(predictions) ==
    LET kept == FilterByScore(predictions, 1)
    IN  [i \in 1..Len(kept) |->
            [id |-> i - 1, class |-> kept[i].class,
             confidence |-> kept[i].score, bbox |-> kept[i].bbox]]

\* the steps of a cycle that can throw, in the order of the code;
\* detectLanePosition catches what its body throws (lines 307-441)
Steps == {"detect", "risk", "flow", "draw"}

\* how a cycle ends: without an exception, or with one thrown by a step
Outcomes == {"ok"} \cup Steps

InsideTryExceptDraw(step) == step \in Steps \ {"draw"}

\* the step is inside the try block of detectObjects (lines 214-299)
InsideTry(step) == step \in Steps

LoopInit ==
    /\ videoSource = FALSE
    /\ isWebcamActive = FALSE
    /\ isPlaying = FALSE
    /\ isModelLoaded = FALSE
    /\ modelCurrent = FALSE
    /\ loadsPending = 1
    /\ webcamRequest = EmptyBag
    /\ legacyRoot \in BOOLEAN
    /\ pendingRender = {}
    /\ pendingEffects = {}
    /\ videoPaused = TRUE
    /\ srcObject = FALSE
    /\ requestAnimationFrameRef = 0
    /\ rafQueue = {}
    /\ nextRafId = 1
    /\ inFlight = {}
    /\ detections = <<>>
    /\ lastFrame = [outcome |-> "none", next |-> 0, escaped |-> FALSE]

\* the video feed as mounted, outside the runs of the loop
LoopIdle == LoopInit /\ ~legacyRoot

\* the effects whose dependencies a render changed: "modelType" for the
\* effect of lines 98-132, "isPlaying" for the one of lines 565-576
EffectsOf(modelTypeChanged, wasPlaying, playing) ==
    (IF modelTypeChanged THEN {"modelType"} ELSE {})
    \cup (IF wasPlaying # playing THEN {"isPlaying"} ELSE {})

\* the effects run: the cleanups of their earlier runs in the order of the
\* component (lines 127-131 cancel without clearing the ref, lines 570-575
\* cancel and clear), then the effect on [isPlaying] of the render with the
\* state playing, loaded (lines 566-568)
RunEffects(R, effects, playing, loaded) ==
    LET cancelled == IF "modelType" \in effects THEN Cancel(R) ELSE R
        cleaned == IF "isPlaying" \in effects THEN CancelAndClear(cancelled)
                   ELSE cancelled
    IN  IF "isPlaying" \in effects /\ playing /\ cleaned.ref = 0
        THEN startObjectDetection(cleaned, Closure(playing, loaded))
        ELSE cleaned

\* the calls of loadModel() (line 124) the effects make
LoadsOf(effects) == IF "modelType" \in effects THEN 1 ELSE 0

\* the render the setters of an event handler cause, R being the animation
\* frames the handler leaves, and playing, loaded the state of the render.
\* The render first runs the effects the render before it left.  Under
\* createRoot the effects of the render of a click run in the click; under
\* ReactDOM.render they are left to a later task
HandlerRender(R, modelTypeChanged, playing, loaded) ==
    LET flushed == RunEffects(R, pendingEffects, isPlaying, isModelLoaded)
        effects == EffectsOf(modelTypeChanged, isPlaying, playing)
    IN  IF legacyRoot
        THEN /\ SetRaf(flushed)
             /\ loadsPending' = loadsPending + LoadsOf(pendingEffects)
             /\ pendingEffects' = effects
        ELSE /\ SetRaf(RunEffects(flushed, effects, playing, loaded))
             /\ loadsPending' = loadsPending + LoadsOf(pendingEffects)
                                 + LoadsOf(effects)
             /\ pendingEffects' = {}

\* handleFileSelect; the file input is rendered only while no video is
handleFileSelect ==
    /\ ~Mounted
    /\ videoSource' = TRUE
    /\ isWebcamActive' = FALSE
    /\ isPlaying' = FALSE
    /\ videoPaused' = TRUE
    /\ srcObject' = FALSE
    /\ HandlerRender(RafState, FALSE, FALSE, isModelLoaded)
    /\ pendingRender' = pendingRender \ {"videoSource", "isWebcamActive", "isPlaying"}
    /\ UNCHANGED <<trackVars, pureVars, isModelLoaded, modelCurrent, webcamRequest,
                   inFlight, detections, lastFrame, legacyRoot>>

\* activateWebcam up to await getUserMedia (lines 153-164); the button is
\* rendered only while no video is, so videoRef.current is null and nothing
\* is paused.  Nothing is set before the await: the button can be clicked
\* again while a call is pending
activateWebcamClick ==
    /\ ~Mounted
    /\ BagCardinality(webcamRequest) < MaxRequests
    /\ webcamRequest' = webcamRequest (+) SetToBag({Closure(isPlaying, isModelLoaded)})
    /\ UNCHANGED <<trackVars, pureVars, videoSource, isWebcamActive, isPlaying, isModelLoaded,
                   modelCurrent, loadsPending, videoPaused, srcObject,
                   requestAnimationFrameRef, rafQueue, nextRafId, inFlight,
                   detections, lastFrame, legacyRoot, pendingRender, pendingEffects>>

\* the state the setters of lines 174-176 are called for
WebcamUpdates == {"isWebcamActive", "isPlaying", "videoSource"}

\* lines 174-176 under ReactDOM.render: a setter that changes the state
\* renders before it returns, and so does a setter of the value held
\* already that is called while the effects of a render are waiting; the
\* render first runs the effects the render before it left, and the effects
\* of the last render are left to a later task.  The animation frames, the
\* loads pending and the effects left
GrantedRenders ==
    LET Rendered(s, playing, left) ==
            [raf |-> RunEffects(s.raf, s.effects, playing, isModelLoaded),
             loads |-> s.loads + LoadsOf(s.effects),
             effects |-> left]
        atFirst == [raf |-> RafState, loads |-> loadsPending,
                    effects |-> pendingEffects]
        afterActive == Rendered(atFirst, isPlaying, {})
        afterPlaying == IF isPlaying THEN afterActive
                        ELSE Rendered(afterActive, isPlaying, {"isPlaying"})
    IN  Rendered(afterPlaying, TRUE, {})

\* activateWebcam after getUserMedia resolved (lines 169-180), for one of the
\* pending calls.  Under createRoot no render happens in this step
activateWebcamGranted ==
    \E call \in BagToSet(webcamRequest) :
        /\ webcamRequest' = webcamRequest (-) SetToBag({call})
        /\ IF Mounted
           THEN /\ srcObject' = TRUE
                /\ videoPaused' = FALSE
                /\ IF legacyRoot
                   THEN /\ isWebcamActive' = TRUE
                        /\ isPlaying' = TRUE
                        /\ videoSource' = FALSE
                        /\ SetRaf(startObjectDetection(GrantedRenders.raf,
                                                       call))
                        /\ loadsPending' = GrantedRenders.loads
                        /\ pendingEffects' = GrantedRenders.effects
                        /\ UNCHANGED pendingRender
                   ELSE /\ pendingRender' = pendingRender \cup WebcamUpdates
                        /\ SetRaf(startObjectDetection(RafState, call))
                        /\ UNCHANGED <<isWebcamActive, isPlaying, videoSource,
                                       loadsPending, pendingEffects>>
           ELSE UNCHANGED <<srcObject, videoPaused, isWebcamActive, isPlaying,
                            videoSource, requestAnimationFrameRef, rafQueue,
                            nextRafId, pendingRender, loadsPending, pendingEffects>>
        /\ UNCHANGED <<trackVars, pureVars, isModelLoaded, modelCurrent, inFlight,
                       detections, lastFrame, legacyRoot>>

\* under createRoot: the render of the state the setters of lines 116 and
\* 174-176 were called for outside an event handler.  The render first runs
\* the effects the render before it left, and leaves its own (lines 565-576)
\* to a later task.  A setter an event handler has called since has the
\* last word on its state
renderQueuedUpdates ==
    /\ pendingRender # {}
    /\ pendingRender' = {}
    /\ isWebcamActive' = ("isWebcamActive" \in pendingRender \/ isWebcamActive)
    /\ isPlaying' = ("isPlaying" \in pendingRender \/ isPlaying)
    /\ videoSource' = ("videoSource" \notin pendingRender /\ videoSource)
    /\ isModelLoaded' = ("isModelLoaded" \in pendingRender \/ isModelLoaded)
    /\ SetRaf(RunEffects(RafState, pendingEffects, isPlaying, isModelLoaded))
    /\ loadsPending' = loadsPending + LoadsOf(pendingEffects)
    /\ pendingEffects' = EffectsOf(FALSE, isPlaying, isPlaying')
    /\ UNCHANGED <<trackVars, pureVars, modelCurrent, webcamRequest,
                   videoPaused, srcObject, inFlight, detections, lastFrame,
                   legacyRoot>>

\* the task that runs the effects the last render left: of any render under
\* ReactDOM.render, of a render outside an event handler under createRoot
passiveEffects ==
    /\ pendingEffects # {}
    /\ pendingEffects' = {}
    /\ SetRaf(RunEffects(RafState, pendingEffects, isPlaying, isModelLoaded))
    /\ loadsPending' = loadsPending + LoadsOf(pendingEffects)
    /\ UNCHANGED <<trackVars, pureVars, videoSource, isWebcamActive, isPlaying,
                   isModelLoaded, modelCurrent, webcamRequest, videoPaused,
                   srcObject, inFlight, detections, lastFrame, legacyRoot,
                   pendingRender>>

\* activateWebcam after getUserMedia rejected, for one of the pending calls:
\* the catch block
activateWebcamDenied ==
    \E call \in BagToSet(webcamRequest) :
        /\ webcamRequest' = webcamRequest (-) SetToBag({call})
        /\ UNCHANGED <<trackVars, pureVars, videoSource, isWebcamActive, isPlaying, isModelLoaded,
                       modelCurrent, loadsPending, videoPaused, srcObject,
                       requestAnimationFrameRef, rafQueue, nextRafId, inFlight,
                       detections, lastFrame, legacyRoot, pendingRender, pendingEffects>>

\* stopWebcam; the button is rendered while isWebcamActive
stopWebcam ==
    /\ isWebcamActive
    /\ IF Mounted /\ srcObject
       THEN /\ srcObject' = FALSE
            /\ videoPaused' = TRUE
            /\ isWebcamActive' = FALSE
            /\ isPlaying' = FALSE
            /\ HandlerRender(CancelAndClear(RafState), FALSE, FALSE, isModelLoaded)
            /\ pendingRender' = pendingRender \ {"isWebcamActive", "isPlaying"}
       ELSE UNCHANGED <<srcObject, videoPaused, isWebcamActive, isPlaying,
                        requestAnimationFrameRef, rafQueue, nextRafId,
                        pendingRender, loadsPending, pendingEffects>>
    /\ UNCHANGED <<trackVars, pureVars, videoSource, isModelLoaded, modelCurrent,
                   webcamRequest, inFlight, detections, lastFrame, legacyRoot>>

\* togglePlayback; the button is rendered with the video and disabled while
\* isWebcamActive
togglePlayback ==
    /\ Mounted
    /\ ~isWebcamActive
    /\ videoPaused' = isPlaying
    /\ HandlerRender(IF isPlaying
                     THEN CancelAndClear(RafState)
                     ELSE startObjectDetection(RafState,
                                               Closure(isPlaying, isModelLoaded)),
                     FALSE, ~isPlaying, isModelLoaded)
    /\ isPlaying' = ~isPlaying
    /\ pendingRender' = pendingRender \ {"isPlaying"}
    /\ UNCHANGED <<trackVars, pureVars, videoSource, isWebcamActive, isModelLoaded, modelCurrent,
                   webcamRequest, srcObject, inFlight, detections,
                   lastFrame, legacyRoot>>

\* the video reaches its end: the element pauses, isPlaying is not told
videoEnds ==
    /\ Mounted
    /\ ~videoPaused
    /\ ~srcObject
    /\ videoPaused' = TRUE
    /\ UNCHANGED <<trackVars, pureVars, videoSource, isWebcamActive, isPlaying, isModelLoaded,
                   modelCurrent, loadsPending, webcamRequest, srcObject,
                   requestAnimationFrameRef, rafQueue, nextRafId, inFlight,
                   detections, lastFrame, legacyRoot, pendingRender, pendingEffects>>

\* toggleModelType (lines 772-786); the button is always rendered.  The
\* effect on [modelType] of its render calls loadModel()
toggleModelType ==
    /\ loadsPending + LoadsOf(pendingEffects) < MaxLoads
    /\ isModelLoaded' = FALSE
    /\ modelCurrent' = FALSE
    /\ HandlerRender(CancelAndClear(RafState), TRUE, isPlaying, FALSE)
    /\ pendingRender' = pendingRender \ {"isModelLoaded"}
    /\ UNCHANGED <<trackVars, pureVars, videoSource, isWebcamActive, isPlaying, webcamRequest,
                   videoPaused, srcObject, inFlight, detections, lastFrame, legacyRoot>>

\* loadModel after cocoSsd.load() resolved (lines 110-117): model.current is
\* set and setIsModelLoaded(true) is called outside an event handler.  Under
\* ReactDOM.render the setter renders before it returns, also when the
\* model is loaded already and the effects of a render are waiting, and the
\* render first runs the effects the render before it left; under
\* createRoot the render is a later task
loadModelDone ==
    /\ loadsPending > 0
    /\ modelCurrent' = TRUE
    /\ IF legacyRoot
       THEN /\ isModelLoaded' = TRUE
            /\ SetRaf(RunEffects(RafState, pendingEffects, isPlaying, isModelLoaded))
            /\ loadsPending' = loadsPending - 1 + LoadsOf(pendingEffects)
            /\ pendingEffects' = {}
            /\ UNCHANGED pendingRender
       ELSE IF isModelLoaded
       THEN /\ loadsPending' = loadsPending - 1
            /\ UNCHANGED <<isModelLoaded, requestAnimationFrameRef, rafQueue,
                           nextRafId, pendingRender, pendingEffects>>
       ELSE /\ pendingRender' = pendingRender \cup {"isModelLoaded"}
            /\ loadsPending' = loadsPending - 1
            /\ UNCHANGED <<isModelLoaded, requestAnimationFrameRef, rafQueue,
                           nextRafId, pendingEffects>>
    /\ UNCHANGED <<trackVars, pureVars, videoSource, isWebcamActive, isPlaying, webcamRequest,
                   videoPaused, srcObject, inFlight, detections, lastFrame, legacyRoot>>

\* loadModel after tf.ready() or cocoSsd.load() rejected: the catch block
loadModelFailed ==
    /\ loadsPending > 0
    /\ loadsPending' = loadsPending - 1
    /\ UNCHANGED <<trackVars, pureVars, videoSource, isWebcamActive, isPlaying, isModelLoaded,
                   modelCurrent, webcamRequest, videoPaused, srcObject,
                   requestAnimationFrameRef, rafQueue, nextRafId, inFlight,
                   detections, lastFrame, legacyRoot, pendingRender, pendingEffects>>

\* the rest of a cycle of detectObjects once detectedObjects is known or the
\* detector call has thrown: the steps up to the one that throws, the catch
\* block, and line 302.  setDetections (line 235) is called outside an event
\* handler: under ReactDOM.render it renders, and the render first runs the
\* effects the render before it left
FinishCycle(R, cl, detectedObjects, outcome) ==
    LET escaped == outcome # "ok" /\ ~InsideTry(outcome)
        renders == legacyRoot /\ outcome # "detect"
        flushed == IF renders
                  THEN RunEffects(R, pendingEffects, isPlaying, isModelLoaded)
                  ELSE R
        after == IF escaped THEN flushed ELSE Request(flushed, cl)
    IN  /\ detections' = IF outcome = "detect" THEN detections
                         ELSE detectedObjects
        /\ SetRaf(after)
        /\ loadsPending' = IF renders THEN loadsPending + LoadsOf(pendingEffects)
                           ELSE loadsPending
        /\ pendingEffects' = IF renders THEN {} ELSE pendingEffects
        /\ lastFrame' = [outcome |-> outcome,
                         next |-> IF escaped THEN 0 ELSE after.ref,
                         escaped |-> escaped]

\* the browser runs the oldest pending animation-frame callback: detectObjects
\* up to its first await, or to its end when it awaits nothing
animationFrame ==
    \E e \in rafQueue :
        /\ \A o \in rafQueue : e.id <= o.id
        /\ LET R == [RafState EXCEPT !.queue = rafQueue \ {e}]
           IN  IF ~Mounted \/ videoPaused \/ ~e.cl.isPlaying
               THEN \* the guard of lines 206-210: return
                    /\ SetRaf(R)
                    /\ UNCHANGED <<inFlight, detections, lastFrame, loadsPending,
                                   pendingEffects>>
               ELSE \E ready \in BOOLEAN :
                    IF ~ready
                    THEN \* video.readyState # 4: only line 302
                         /\ SetRaf(Request(R, e.cl))
                         /\ lastFrame' = [outcome |-> "notReady",
                                          next |-> R.next, escaped |-> FALSE]
                         /\ UNCHANGED <<inFlight, detections, loadsPending,
                                        pendingEffects>>
                    ELSE IF modelCurrent /\ e.cl.isModelLoaded
                    THEN \* await model.current.detect(video)
                         /\ inFlight' = inFlight \cup {e}
                         /\ SetRaf(R)
                         /\ UNCHANGED <<detections, lastFrame, loadsPending,
                                        pendingEffects>>
                    ELSE \* no model: detectedObjects stays []
                         /\ \E outcome \in Outcomes \ {"detect"} :
                               FinishCycle(R, e.cl, <<>>, outcome)
                         /\ UNCHANGED inFlight
        /\ UNCHANGED <<trackVars, pureVars, videoSource, isWebcamActive, isPlaying, isModelLoaded,
                       modelCurrent, webcamRequest, videoPaused,
                       srcObject, legacyRoot, pendingRender>>

\* the detector call of a suspended execution settles and detectObjects runs
\* to its end
detectSettles ==
    \E e \in inFlight :
        /\ inFlight' = inFlight \ {e}
        /\ \E predictions \in PredictionSets, outcome \in Outcomes :
              FinishCycle(RafState, e.cl, DetectedObjects(predictions), outcome)
        /\ UNCHANGED <<trackVars, pureVars, videoSource, isWebcamActive, isPlaying, isModelLoaded,
                       modelCurrent, webcamRequest, videoPaused,
                       srcObject, legacyRoot, pendingRender>>

-----------------------------------------------------------------------------
(* Calls of calculateIoU on a pair of boxes *)

\* boxes [x, y, width, height]: overlapping, touching along an edge, touching
\* at a corner, disjoint, nested, with a fractional coordinate, and with no
\* area
IoUBoxes ==
    { <<Num(10), Num(10), Num(50), Num(50)>>,
      <<Num(12), Num(11), Num(50), Num(50)>>,
      <<Num(60), Num(10), Num(50), Num(50)>>,
      <<Num(60), Num(60), Num(50), Num(50)>>,
      <<Num(500), Num(500), Num(50), Num(50)>>,
      <<Num(10), Num(10), Num(50), Num(100)>>,
      <<Num(20), Num(20), Num(10), Num(10)>>,
      <<<<21, 2>>, <<21, 2>>, <<3, 2>>, <<5, 2>>>>,
      <<Num(10), Num(10), Num(0), Num(0)>>,
      <<Num(30), Num(30), Num(0), Num(0)>>,
      <<Num(10), Num(10), Num(0), Num(50)>>,
      <<Num(10), Num(10), Num(50), Num(0)>> }

\* boxes of decimal literals that are not binary64 values: identical boxes,
\* overlapping, touching along an edge and apart
DecimalBoxes ==
    { <<<<1, 10>>, <<1, 10>>, <<2, 10>>, <<2, 10>>>>,
      <<<<2, 10>>, <<1, 10>>, <<2, 10>>, <<2, 10>>>>,
      <<<<7, 10>>, <<1, 10>>, <<2, 10>>, <<2, 10>>>>,
      <<<<25, 100>>, <<1, 10>>, <<5, 10>>, <<2, 10>>>>,
      <<<<75, 100>>, <<1, 10>>, <<2, 10>>, <<2, 10>>>> }

\* the box of the binary64 values of the four literals of bbox
DoubleBox(bbox) == [c \in 1..4 |-> DoubleOf(bbox[c])]

\* the boxes above as the source holds them
DoubleBoxes == {DoubleBox(bbox) : bbox \in IoUBoxes \cup DecimalBoxes}

\* no call is being looked at
IoUIdle ==
    /\ iouArgs = <<>>
    /\ iouResult = [done |-> FALSE, ab |-> NaN, ba |-> NaN]

IoUInit ==
    /\ iouArgs \in (IoUBoxes \X IoUBoxes) \cup (DoubleBoxes \X DoubleBoxes)
    /\ iouResult = [done |-> FALSE, ab |-> NaN, ba |-> NaN]

\* calculateIoU(a, b) and calculateIoU(b, a)
callCalculateIoU ==
    /\ ~iouResult.done
    /\ iouResult' = [done |-> TRUE,
                     ab |-> calculateIoU(iouArgs[1], iouArgs[2]),
                     ba |-> calculateIoU(iouArgs[2], iouArgs[1])]
    /\ UNCHANGED <<iouArgs, trackVars, loopVars, cycleVars, monVars, matchVars, streamVars, heapVars, flowVars, extraVars>>

-----------------------------------------------------------------------------
(* The decimal literals of detectObjects, detectLanePosition and          *)
(* analyzeTrafficFlow as binary64 values                                  *)

OneTenth == DoubleOf(<<1, 10>>)

ThreeTenths == DoubleOf(<<3, 10>>)

FourTenths == DoubleOf(<<4, 10>>)

OneHalf == DoubleOf(<<1, 2>>)

SixTenths == DoubleOf(<<6, 10>>)

SevenTenths == DoubleOf(<<7, 10>>)

OneAndAHalf == DoubleOf(<<3, 2>>)

TwoAndAHalf == DoubleOf(<<5, 2>>)

-----------------------------------------------------------------------------
(* The data path of a detectObjects cycle: the risk records of lines       *)
(* 237-286, analyzeTrafficFlow, detectLanePosition and drawDetections.  A  *)
(* value returned by Math.random() is an argument named random.  The       *)
(* numbers of a detection and every number published are binary64 values.  *)

\* String.prototype.toLowerCase on the class names of the model
toLowerCase(str) ==
    IF str = "Car" THEN "car"
    ELSE IF str = "TRUCK" THEN "truck"
    ELSE str

\* Math.floor of a finite number
MathFloor(a) ==
    IF IsNaN(a) THEN NaN
    ELSE IF IsDouble(a) THEN DoubleOfInt(DoubleFloorInt(a))
    ELSE Num(a[1] \div a[2])

\* Math.round of a finite double below 2^52 in size: the nearest integer,
\* the upper one of two equally near
MathRound(a) ==
    IF IsNaN(a) THEN NaN
    ELSE IF GreaterEq(Minus(a, MathFloor(a)), OneHalf)
         THEN Plus(MathFloor(a), DoubleOfInt(1))
         ELSE MathFloor(a)

\* the class list of line 239 and of analyzeTrafficFlow (line 447)
vehicleClasses == {"car", "truck", "bus", "motorcycle", "bicycle"}

\* lines 260-261
TrajectoryUpperHalf(verticalPosition) ==
    IF Less(verticalPosition, OneHalf) THEN "approaching"
    ELSE IF Less(verticalPosition, SevenTenths) THEN "parallel"
    ELSE "departing"

\* a variant without the class between the two lines
TrajectoryNoParallel(verticalPosition) ==
    IF Greater(verticalPosition, OneHalf) THEN "approaching"
    ELSE "departing"

Trajectory(verticalPosition) ==
    IF Greater(verticalPosition, OneHalf) THEN "approaching"
    ELSE IF Greater(verticalPosition, ThreeTenths) THEN "parallel"
    ELSE "departing"

NoClamp(x) == x

\* line 272: Math.min(1, Math.max(0, collisionRisk))
ClampRisk(x) == MathMin(DoubleOfInt(1), MathMax(DoubleOfInt(0), x))

\* distance (lines 242-248) for the box of a detection
Distance(bbox, video) ==
    LET boxArea == Times(bbox[3], bbox[4])
        frameArea == Times(DoubleOfInt(video.videoWidth),
                           DoubleOfInt(video.videoHeight))
        relativeSizeRatio == Divide(boxArea, frameArea)
    IN  MathMax(DoubleOfInt(5),
                Times(DoubleOfInt(50),
                      Minus(DoubleOfInt(1), MathSqrt(relativeSizeRatio))))

\* speed (line 251) for the value Math.random() returned
SimulatedSpeed(random) == Plus(Times(random, DoubleOfInt(40)), DoubleOfInt(30))

\* a variant without the factor of an approaching vehicle
RiskRecordNoApproachFactor(obj, video, random) ==
    LET boxArea == Times(obj.bbox[3], obj.bbox[4])
        frameArea == Times(DoubleOfInt(video.videoWidth),
                           DoubleOfInt(video.videoHeight))
        relativeSizeRatio == Divide(boxArea, frameArea)
        yCenter == Plus(obj.bbox[2], Divide(obj.bbox[4], DoubleOfInt(2)))
        frameHeight == DoubleOfInt(video.videoHeight)
        verticalPosition == Divide(yCenter, frameHeight)
        trajectory == Trajectory(verticalPosition)
        basicRisk == Times(relativeSizeRatio, TwoAndAHalf)
    IN  [id |-> obj.id,
         type |-> toLowerCase(obj.class),
         distance |-> Distance(obj.bbox, video),
         speed |-> SimulatedSpeed(random),
         trajectory |-> trajectory,
         collisionRisk |-> ClampRisk(basicRisk),
         bbox |-> obj.bbox]

\* the body of the map of lines 240-283 for one vehicle-class detection;
\* random is the value Math.random() returns at line 251
RiskRecord(obj, video, random) ==
    LET boxArea == Times(obj.bbox[3], obj.bbox[4])
        frameArea == Times(DoubleOfInt(video.videoWidth),
                           DoubleOfInt(video.videoHeight))
        relativeSizeRatio == Divide(boxArea, frameArea)
        yCenter == Plus(obj.bbox[2], Divide(obj.bbox[4], DoubleOfInt(2)))
        frameHeight == DoubleOfInt(video.videoHeight)
        verticalPosition == Divide(yCenter, frameHeight)
        trajectory == Trajectory(verticalPosition)
        basicRisk == Times(relativeSizeRatio, TwoAndAHalf)
        collisionRisk == IF trajectory = "approaching"
                         THEN Times(basicRisk, OneAndAHalf)
                         ELSE basicRisk
    IN  [id |-> obj.id,
         type |-> toLowerCase(obj.class),
         distance |-> Distance(obj.bbox, video),
         speed |-> SimulatedSpeed(random),
         trajectory |-> trajectory,
         collisionRisk |-> ClampRisk(collisionRisk),
         bbox |-> obj.bbox]

\* the value the k-th call of Math.random() of the map returns: randoms[1]
\* for an odd k and randoms[2] for an even one
SpeedDraw(randoms, k) == randoms[2 - (k % 2)]

\* a variant that compares the class names as they are
VehicleDetectionsCaseSensitive(detectedObjects, video, randoms) ==
    LET kept == SelectSeq(detectedObjects,
                          LAMBDA obj : obj.class \in vehicleClasses)
    IN  [i \in 1..Len(kept) |-> RiskRecord(kept[i], video, SpeedDraw(randoms, i))]

\* vehicleDetections (lines 238-283)
VehicleDetections(detectedObjects, video, randoms) ==
    LET kept == SelectSeq(detectedObjects,
                          LAMBDA obj : toLowerCase(obj.class) \in vehicleClasses)
    IN  [i \in 1..Len(kept) |-> RiskRecord(kept[i], video, SpeedDraw(randoms, i))]

\* analyzeTrafficFlow (lines 445-470): the record given to setTrafficFlow
analyzeTrafficFlow(dets, random) ==
    LET vehicleCount ==
            Len(SelectSeq(dets, LAMBDA d : toLowerCase(d.class) \in vehicleClasses))
        density == MathMin(DoubleOfInt(1),
                           Divide(DoubleOfInt(vehicleCount), DoubleOfInt(10)))
        avgSpeed == MathMax(DoubleOfInt(10),
                            Minus(DoubleOfInt(80), Times(density, DoubleOfInt(70))))
        congestion == IF Greater(density, SevenTenths) THEN "high"
                      ELSE IF Greater(density, ThreeTenths) THEN "medium"
                      ELSE "low"
        jittered == Plus(density, Times(Minus(random, OneHalf), OneTenth))
    IN  [density |-> MathMin(DoubleOfInt(1), MathMax(DoubleOfInt(0), jittered)),
         speed |-> avgSpeed,
         congestion |-> congestion]

\* centerX / video.videoWidth (lines 387-388, 406-407 and 412-413)
RelativeX(d, video) ==
    Divide(Plus(d.bbox[1], Divide(d.bbox[3], DoubleOfInt(2))),
           DoubleOfInt(video.videoWidth))

\* a variant in which the left region wins a tie
PositionOfStrengthsLeftOnTie(leftLaneStrength, centerLaneStrength, rightLaneStrength) ==
    IF leftLaneStrength > 0
       /\ leftLaneStrength >= centerLaneStrength
       /\ leftLaneStrength >= rightLaneStrength
    THEN "left"
    ELSE IF rightLaneStrength > centerLaneStrength
            /\ rightLaneStrength > leftLaneStrength
    THEN "right"
    ELSE "centered"

\* position (lines 355-376) for the strengths the scan has counted
PositionOfStrengths(leftLaneStrength, centerLaneStrength, rightLaneStrength) ==
    LET totalStrength ==
            MathMax(Num(1),
                    Num(leftLaneStrength + centerLaneStrength + rightLaneStrength))
        leftConfidence == Divide(Num(leftLaneStrength), totalStrength)
        centerConfidence == Divide(Num(centerLaneStrength), totalStrength)
        rightConfidence == Divide(Num(rightLaneStrength), totalStrength)
    IN  IF Greater(leftConfidence, centerConfidence)
           /\ Greater(leftConfidence, rightConfidence)
        THEN "left"
        ELSE IF Greater(rightConfidence, centerConfidence)
                /\ Greater(rightConfidence, leftConfidence)
        THEN "right"
        ELSE "centered"

\* leftRegion (line 334): Math.floor(canvas.width * 0.3) in binary64
LeftRegion(width) == DoubleFloorInt(Times(DoubleOfInt(width), ThreeTenths))

\* rightRegion (line 335): Math.floor(canvas.width * 0.7) in binary64
RightRegion(width) == DoubleFloorInt(Times(DoubleOfInt(width), SevenTenths))

\* lines 337-376 for the two region bounds
LanePositionIn(width, scan, leftRegion, rightRegion) ==
    LET Bright(x) ==
            Greater(Divide(Num(scan[x + 1][1] + scan[x + 1][2] + scan[x + 1][3]),
                           Num(3)),
                    Num(200))
    IN  PositionOfStrengths(
            Cardinality({x \in 0..(width - 1) : Bright(x) /\ x < leftRegion}),
            Cardinality({x \in 0..(width - 1) :
                            Bright(x) /\ ~(x < leftRegion) /\ ~(x > rightRegion)}),
            Cardinality({x \in 0..(width - 1) :
                            Bright(x) /\ ~(x < leftRegion) /\ x > rightRegion}))

\* position (lines 326-376); scan is the pixel row at scanHeight, one
\* <<red, green, blue>> per x
LanePosition(video, scan) ==
    LanePositionIn(video.videoWidth, scan, LeftRegion(video.videoWidth),
                   RightRegion(video.videoWidth))

\* vehiclesAhead (lines 383-395)
VehiclesAhead(dets, position, video) ==
    SelectSeq(dets,
        LAMBDA d :
            /\ toLowerCase(d.class) \in {"car", "truck", "bus", "motorcycle"}
            /\ \/ position = "left" /\ Less(RelativeX(d, video), FourTenths)
               \/ /\ position = "centered"
                  /\ Greater(RelativeX(d, video), ThreeTenths)
                  /\ Less(RelativeX(d, video), SevenTenths)
               \/ position = "right" /\ Greater(RelativeX(d, video), SixTenths))

\* a variant that keeps the centre lane with a vehicle ahead
IdealPositionKeepCentre(dets, position, video) ==
    IF Len(VehiclesAhead(dets, position, video)) > 0 THEN "centered" ELSE "right"

\* idealPosition (lines 380-422)
IdealPosition(dets, position, video) ==
    IF Len(VehiclesAhead(dets, position, video)) > 0
    THEN IF position = "left" THEN "centered"
         ELSE IF position = "right" THEN "centered"
         ELSE LET leftVehicles ==
                      Len(SelectSeq(dets,
                            LAMBDA d : Less(RelativeX(d, video), FourTenths)))
                  rightVehicles ==
                      Len(SelectSeq(dets,
                            LAMBDA d : Greater(RelativeX(d, video), SixTenths)))
              IN  IF leftVehicles <= rightVehicles THEN "left" ELSE "right"
    ELSE "right"

\* the record detectLanePosition gives to setLaneData (lines 362-437) for
\* the position and the ideal position it has found
LaneRecord(position, idealPosition, randomDeviation, randomScore) ==
    LET spread == IF position = "centered" THEN 6 ELSE 10
        deviation == Minus(MathFloor(Times(randomDeviation, DoubleOfInt(spread))),
                           DoubleOfInt(spread \div 2))
        score == IF position # idealPosition
                 THEN MathMax(DoubleOfInt(60),
                              Minus(DoubleOfInt(100),
                                    MathFloor(Times(randomScore, DoubleOfInt(30)))))
                 ELSE DoubleOfInt(100)
    IN  [position |-> position,
         confidence |-> SevenTenths,
         deviation |-> deviation,
         idealPosition |-> idealPosition,
         score |-> score]

\* the position and the ideal position detectLanePosition finds (lines
\* 326-422) as the one member of a set; dets is the detections state its
\* closure holds
LaneFound(video, scan, dets) ==
    { <<position, IdealPosition(dets, position, video)>> :
          position \in {LanePosition(video, scan)} }

HighRiskCallsFromSeventy(enabled, vehicles) ==
    IF ~enabled THEN <<>>
    ELSE SelectSeq(vehicles, LAMBDA v : GreaterEq(v.collisionRisk, SevenTenths))

\* the effect of TrafficMonitoring (lines 22-32): the vehicles the callback
\* onHighRiskVehicleDetected is invoked with, in order
HighRiskCalls(enabled, vehicles) ==
    IF ~enabled THEN <<>>
    ELSE SelectSeq(vehicles, LAMBDA v : Greater(v.collisionRisk, SevenTenths))

\* the colour of the switch of lines 493-512 for a class in lower case
ColorOf(lowerClass) ==
    IF lowerClass \in {"car", "truck", "bus"} THEN "#0EA5E9"
    ELSE IF lowerClass = "person" THEN "#F97316"
    ELSE IF lowerClass \in {"bicycle", "motorcycle"} THEN "#A855F7"
    ELSE IF lowerClass \in {"traffic light", "traffic sign", "stop sign"}
    THEN "#EF4444"
    ELSE "#10B981"

\* what lines 487-529 draw for one detection: the rectangle, its colour and
\* the label, the class with the confidence in percent
Drawing(detection) ==
    [rect |-> detection.bbox,
     color |-> ColorOf(toLowerCase(detection.class)),
     label |-> <<detection.class,
                 MathRound(Times(detection.confidence, DoubleOfInt(100)))>>]

\* drawDetections (lines 473-530): the canvas is cleared and the detections
\* are drawn, unless the canvas gives no 2d context; drawn is what the
\* canvas showed before
drawDetections(detects, canvasCtx, drawn) ==
    IF ~canvasCtx THEN drawn
    ELSE [i \in 1..Len(detects) |-> Drawing(detects[i])]

-----------------------------------------------------------------------------
(* One cycle on given inputs *)

\* the video frame: video.videoWidth and video.videoHeight
CycleVideo == [videoWidth |-> 20, videoHeight |-> 10]

Det(id, class, x, y, w, h) ==
    [id |-> id, class |-> class, confidence |-> DoubleOf(<<9, 10>>),
     bbox |-> <<DoubleOfInt(x), DoubleOfInt(y), DoubleOfInt(w), DoubleOfInt(h)>>]

\* a batch of ManyDetections detections: one box larger than the frame, the
\* others cars of 40% of the frame
ManyBatch ==
    [i \in 1..ManyDetections |->
        IF i = 1 THEN Det(0, "truck", 0, 0, 50, 50)
        ELSE Det(i - 1, "car", 2, 2, 10, 8)]

\* three cars with boxes of one size, their vertical centres at 70%, 50% and
\* 30% of the frame height
SameSizeBatch ==
    << Det(0, "car", 8, 6, 2, 2), Det(1, "car", 8, 4, 2, 2),
       Det(2, "car", 8, 2, 2, 2) >>

\* the batches detectedObjects of a cycle; the car of 7 by 8 covers 28% of
\* the frame, and 0.28 * 2.5 is the double above 0.7
CycleBatches ==
    { <<>>,
      << Det(0, "car", 2, 2, 10, 8) >>,
      << Det(0, "Car", 2, 0, 10, 8), Det(1, "person", 14, 1, 2, 2) >>,
      << Det(0, "bicycle", 15, 6, 2, 2), Det(1, "TRUCK", 0, 0, 50, 50) >>,
      << Det(0, "bus", 5, 5, -4, 3), Det(1, "motorcycle", 1, 5, 2, 2) >>,
      << Det(0, "car", 0, 0, 7, 8), Det(1, "car", 0, 0, 11, 6) >>,
      [i \in 1..5 |-> Det(i - 1, "motorcycle", 8, 1, 2, 2)],
      [i \in 1..11 |-> Det(i - 1, "car", 8, 4, 2, 2)],
      SameSizeBatch }

\* the detections state a detectObjects closure can hold: an earlier batch
ClosureDetections ==
    { <<>>,
      << Det(0, "car", 2, 2, 10, 8) >>,
      << Det(0, "car", 8, 4, 4, 4) >>,
      << Det(0, "person", 14, 1, 2, 2) >>,
      << Det(0, "bicycle", 15, 6, 2, 2), Det(1, "TRUCK", 0, 0, 50, 50) >>,
      << Det(0, "bus", 5, 5, -4, 3), Det(1, "motorcycle", 1, 5, 2, 2) >> }

\* a pixel row: white at the x of bright, (201,200,200) at the x of above,
\* (200,200,200) at the x of level, black elsewhere
ScanLineOf(width, bright, above, level) ==
    [i \in 1..width |->
        IF (i - 1) \in bright THEN <<255, 255, 255>>
        ELSE IF (i - 1) \in above THEN <<201, 200, 200>>
        ELSE IF (i - 1) \in level THEN <<200, 200, 200>>
        ELSE <<0, 0, 0>>]

ScanLine(bright, above, level) ==
    ScanLineOf(CycleVideo.videoWidth, bright, above, level)

ScanLines ==
    { ScanLine({}, {}, {}),
      ScanLine({0, 1}, {}, {}),
      ScanLine({}, {15, 16}, {0, 1, 2}),
      ScanLine({8, 9}, {}, {}),
      ScanLine({0, 19}, {}, {}),
      ScanLine({5, 6}, {}, {}),
      ScanLine({14, 15}, {}, {}),
      ScanLine({3}, {4, 19}, {}) }

\* a frame of 90 by 10, 70% of its width being 63, and a frame of 15 by 10,
\* 30% of its width being 4.5
WideVideo == [videoWidth |-> 90, videoHeight |-> 10]

NarrowVideo == [videoWidth |-> 15, videoHeight |-> 10]

\* frames with one white pixel, or two, next to a region bound
BoundaryFrames ==
    { [video |-> WideVideo, scan |-> ScanLineOf(90, {63}, {}, {})],
      [video |-> WideVideo, scan |-> ScanLineOf(90, {64}, {}, {})],
      [video |-> WideVideo, scan |-> ScanLineOf(90, {26}, {}, {})],
      [video |-> WideVideo, scan |-> ScanLineOf(90, {27, 63}, {}, {})],
      [video |-> NarrowVideo, scan |-> ScanLineOf(15, {4}, {}, {})],
      [video |-> NarrowVideo, scan |-> ScanLineOf(15, {3}, {}, {})],
      [video |-> NarrowVideo, scan |-> ScanLineOf(15, {10}, {}, {})] }

\* values Math.random() returns
Randoms == {DoubleOfInt(0), OneHalf, DoubleOf(<<999, 1000>>)}

\* the least value Math.random() returns and one next to its upper bound
RandomEnds == {DoubleOfInt(0), DoubleOf(<<999, 1000>>)}

\* the values the calls of Math.random() of line 251 return: the one of the
\* odd calls and the one of the even calls
SpeedDraws ==
    { <<DoubleOfInt(0), DoubleOf(<<999, 1000>>)>>, <<OneHalf, DoubleOfInt(0)>> }

\* the inputs of a cycle: every batch with one frame for the lane estimator,
\* every frame and closure for the lane estimator with two of the batches,
\* and a canvas that gives no 2d context to drawDetections
CycleInputs ==
    [detectedObjects : CycleBatches,
     detections : {<<Det(0, "car", 2, 2, 10, 8)>>},
     video : {CycleVideo}, scan : {ScanLine({0, 1}, {}, {})}, ctx : {TRUE},
     canvasCtx : {TRUE}]
    \cup
    [detectedObjects : {<<>>, <<Det(0, "car", 2, 2, 10, 8)>>},
     detections : ClosureDetections,
     video : {CycleVideo}, scan : ScanLines, ctx : BOOLEAN, canvasCtx : {TRUE}]
    \cup
    { [detectedObjects |-> <<>>, detections |-> <<>>, video |-> f.video,
       scan |-> f.scan, ctx |-> TRUE, canvasCtx |-> TRUE] : f \in BoundaryFrames }
    \cup
    { [detectedObjects |-> <<Det(0, "person", 14, 1, 2, 2)>>, detections |-> <<>>,
       video |-> CycleVideo, scan |-> ScanLine({}, {}, {}), ctx |-> TRUE,
       canvasCtx |-> FALSE] }

NoDraws == [speed |-> <<NaN, NaN>>, flow |-> NaN, deviation |-> NaN, score |-> NaN]

\* the initial laneData of the DetectionProvider (DetectionContext.tsx lines 45-51)
DefaultLaneData ==
    [position |-> "centered", confidence |-> DoubleOf(<<8, 10>>),
     deviation |-> DoubleOfInt(0), idealPosition |-> "centered",
     score |-> DoubleOfInt(100)]

\* the initial React and context state (part_003 lines 50-54,
\* DetectionContext.tsx lines 44-51), TrafficMonitoring mounted and enabled
PublishedInit ==
    /\ detectedVehicles = <<>>
    /\ trafficFlow = [density |-> ThreeTenths, speed |-> DoubleOfInt(45),
                      congestion |-> "low"]
    /\ laneData = DefaultLaneData
    /\ isEnabled = TRUE
    /\ highRiskCalls = <<>>
    /\ effectRuns = 0
    /\ effectPending = FALSE
    /\ cycleDone = FALSE
    /\ draws = NoDraws
    /\ canvas = <<>>
    /\ laneAgain = [done |-> FALSE, draws |-> NoDraws, laneData |-> DefaultLaneData]

CycleIdle == cycleIn = <<>> /\ PublishedInit

CycleInit == cycleIn \in CycleInputs /\ PublishedInit

\* the cycle of the batch of ManyDetections detections
ManyInputs ==
    { [detectedObjects |-> ManyBatch, detections |-> <<Det(0, "car", 2, 2, 10, 8)>>,
       video |-> CycleVideo, scan |-> ScanLine({0, 1}, {}, {}), ctx |-> TRUE,
       canvasCtx |-> TRUE] }

ManyInit == cycleIn \in CycleInputs \cup ManyInputs /\ PublishedInit

\* lines 235-295 of detectObjects for the detectedObjects, the frame and the
\* closure of the cycle: the setters of the detections, the vehicle records,
\* the traffic flow and the lane data, and the drawing.  The render that
\* follows and its effects are steps of their own
detectObjectsBody ==
    /\ cycleIn # <<>>
    /\ ~cycleDone
    /\ cycleDone' = TRUE
    /\ detections' = cycleIn.detectedObjects
    /\ effectPending' = TRUE
    /\ canvas' = drawDetections(cycleIn.detectedObjects, cycleIn.canvasCtx, canvas)
    /\ \E found \in IF cycleIn.ctx
                     THEN LaneFound(cycleIn.video, cycleIn.scan, cycleIn.detections)
                     ELSE {<<>>},
          randomSpeed \in SpeedDraws :
          /\ detectedVehicles' = VehicleDetections(cycleIn.detectedObjects,
                                                   cycleIn.video, randomSpeed)
          /\ \E randomFlow \in Randoms :
                /\ trafficFlow' = analyzeTrafficFlow(cycleIn.detectedObjects, randomFlow)
                /\ \E randomDeviation \in RandomEnds, randomScore \in RandomEnds :
                      /\ laneData' = IF cycleIn.ctx
                                     THEN LaneRecord(found[1], found[2],
                                                     randomDeviation, randomScore)
                                     ELSE laneData
                      /\ draws' = [speed |-> randomSpeed, flow |-> randomFlow,
                                   deviation |-> randomDeviation, score |-> randomScore]
    /\ UNCHANGED <<cycleIn, laneAgain, isEnabled, highRiskCalls, effectRuns,
                   trackVars, feedVars, iouVars, matchVars, streamVars, heapVars,
                   flowVars, extraVars>>

\* TrafficMonitoring renders and its effect (lines 22-32) runs, one of its
\* dependencies having changed since its last run
trafficMonitoringEffect ==
    /\ effectPending
    /\ effectPending' = FALSE
    /\ highRiskCalls' = HighRiskCalls(isEnabled, detectedVehicles)
    /\ effectRuns' = effectRuns + 1
    /\ UNCHANGED <<detectedVehicles, isEnabled, cycleVars, trackVars, loopVars,
                   iouVars, matchVars, streamVars, heapVars, flowVars, extraVars>>

\* detectLanePosition run once more on the inputs of the cycle
detectLanePositionAgain ==
    /\ cycleDone
    /\ cycleIn.ctx
    /\ ~laneAgain.done
    /\ \E found \in LaneFound(cycleIn.video, cycleIn.scan, cycleIn.detections),
          randomDeviation \in RandomEnds, randomScore \in RandomEnds :
          laneAgain' = [done |-> TRUE,
                        draws |-> [speed |-> <<NaN, NaN>>, flow |-> NaN,
                                   deviation |-> randomDeviation,
                                   score |-> randomScore],
                        laneData |-> LaneRecord(found[1], found[2],
                                                randomDeviation, randomScore)]
    /\ UNCHANGED <<cycleIn, cycleDone, draws, trafficFlow, laneData, canvas, monVars,
                   trackVars, loopVars, iouVars, matchVars, streamVars, heapVars, flowVars, extraVars>>

-----------------------------------------------------------------------------
(* The two traffic-flow functions on one detection list *)

\* detectTrafficFlow (yoloDetection.ts lines 61-85)
detectTrafficFlow(dets) ==
    LET vehicleCount ==
            Len(SelectSeq(dets, LAMBDA d : toLowerCase(d.class) \in vehicleClasses))
        density == MathMin(DoubleOfInt(1),
                           Divide(DoubleOfInt(vehicleCount), DoubleOfInt(10)))
        averageSpeed == MathMax(DoubleOfInt(10),
                                Minus(DoubleOfInt(80),
                                      Times(density, DoubleOfInt(60))))
    IN  [vehicles |-> vehicleCount,
         density |-> density,
         averageSpeed |-> averageSpeed]

\* lists of up to MaxVehicles detections of one class, and the batches of
\* the cycles
FlowBatches ==
    { [i \in 1..n |-> Det(i - 1, class, 8, 4, 2, 2)] :
        n \in 0..MaxVehicles, class \in {"car", "TRUCK", "bicycle", "person"} }
    \cup CycleBatches

NoFlow ==
    [done |-> FALSE,
     feed |-> [density |-> NaN, speed |-> NaN, congestion |-> "low"],
     utility |-> [vehicles |-> 0, density |-> NaN, averageSpeed |-> NaN]]

\* no call is being looked at
FlowIdle == flowArgs = <<>> /\ flowResult = NoFlow

FlowInit == flowArgs \in FlowBatches /\ flowResult = NoFlow

\* analyzeTrafficFlow(detections) and detectTrafficFlow(detections)
callTrafficFlow ==
    /\ ~flowResult.done
    /\ \E random \in Randoms :
          flowResult' = [done |-> TRUE,
                         feed |-> analyzeTrafficFlow(flowArgs, random),
                         utility |-> detectTrafficFlow(flowArgs)]
    /\ UNCHANGED <<flowArgs, trackVars, loopVars, iouVars, cycleVars, monVars,
                   matchVars, streamVars, heapVars, extraVars>>

-----------------------------------------------------------------------------
(* The distance of a vehicle record (lines 241-248), in binary64 *)

\* widths and heights of boxes on the frame of 20 by 10: no area, small,
\* 40%, 80%, 81% and 89.5% of the frame, the frame, larger than the frame,
\* and, nothing validating the boxes of the detector, a negative width with
\* a positive and with a negative height
DistanceSizes ==
    { <<Num(0), Num(0)>>, <<Num(1), Num(1)>>, <<Num(2), Num(2)>>,
      <<<<5, 2>>, <<3, 2>>>>, <<Num(10), Num(8)>>, <<Num(16), Num(10)>>,
      <<Num(18), Num(9)>>, <<<<162, 10>>, Num(10)>>, <<<<161, 10>>, Num(10)>>,
      <<<<179, 10>>, Num(10)>>, <<Num(20), Num(10)>>, <<Num(50), Num(50)>>,
      <<Num(-4), Num(3)>>, <<Num(-4), Num(-3)>> }

\* the box of the size at (1, 0), its numbers as the source holds them
DistanceBox(size) == DoubleBox(<<Num(1), Num(0), size[1], size[2]>>)

NoDistance == [done |-> FALSE, first |-> NaN, second |-> NaN]

\* no pair of detections is being looked at
DistanceIdle == distanceArgs = <<>> /\ distanceResult = NoDistance

DistanceInit ==
    /\ distanceArgs \in
          [first : {DistanceBox(size) : size \in DistanceSizes},
           second : {DistanceBox(size) : size \in DistanceSizes},
           video : {CycleVideo}]
    /\ distanceResult = NoDistance

\* the distance of lines 241-248 for two detections of one frame
computeDistances ==
    /\ ~distanceResult.done
    /\ distanceResult' =
          [done |-> TRUE,
           first |-> Distance(distanceArgs.first, distanceArgs.video),
           second |-> Distance(distanceArgs.second, distanceArgs.video)]
    /\ UNCHANGED <<distanceArgs, trackVars, loopVars, iouVars, cycleVars, monVars,
                   matchVars, streamVars, heapVars, flowVars, navigationVars>>

-----------------------------------------------------------------------------
(* Index, NavigationMap and EmergencyFeature: the destination and the       *)
(* navigation simulation.  app holds the values of the hooks as the last    *)
(* render committed them, and the refs; updateQueue holds, for every hook,  *)
(* the updates its setter was called with since.  A handler reads the       *)
(* values of the render it was created in; an updater (prev => ...) runs    *)
(* when its queue is processed, in a render.  A list of steps is held as    *)
(* its length.                                                              *)
(*                                                                          *)
(* A click or a key is a discrete event: React renders its updates before   *)
(* the task ends.  Under createRoot that render takes the updates of the    *)
(* event only, leaves those of timers and effects to a later task, and is   *)
(* followed at once by its effects; under ReactDOM.render every update is   *)
(* rendered as soon as the batch it was made in ends, and the effects of a  *)
(* render wait for a later task.  Whatever renders first runs the effects   *)
(* that are still waiting.                                                  *)

CurrentLocation == "Current Location"

\* mockLocations of activateEmergency (NavigationInput.tsx 131-160)
EmergencyLocations ==
    { [id |-> "h1", name |-> "City General Hospital",
       address |-> "123 Medical Drive"],
      [id |-> "h2", name |-> "St. Mary Medical Center",
       address |-> "456 Health Boulevard"],
      [id |-> "f1", name |-> "Shell Petrol Station",
       address |-> "789 Energy Lane"],
      [id |-> "f2", name |-> "BP Gas Station",
       address |-> "101 Fuel Avenue"] }

\* `${location.name}, ${location.address}`
LocationText(location) == location.name \o ", " \o location.address

\* the texts typed into the destination field, and into the origin field
TypedDestinations == {"", "Airport"}
TypedOrigins == {"Home"}

\* text.toLowerCase().includes(word), on the texts of the model: of the
\* typed destinations and the four locations, one names a hospital and one
\* an airport
Includes(text, word) ==
    <<text, word>> \in
        { <<"City General Hospital, 123 Medical Drive", "hospital">>,
          <<"Airport", "airport">> }

\* the number of mockSteps of handleRouteSearch (lines 186-229)
MockSteps(destination, isEmergencyRoute) ==
    IF Includes(destination, "hospital") \/ isEmergencyRoute THEN 5
    ELSE IF Includes(destination, "airport") THEN 5
    ELSE IF Includes(destination, "downtown") THEN 5
    ELSE IF Includes(destination, "university") THEN 5
    ELSE 7

\* progressIntervalRef.current when no interval runs; a running interval
\* is held as the number of steps it was started with
NoInterval == 0

\* the timeouts of activateEmergency that may be pending at once
MaxLookups == 1

\* a tick of the interval is taken while fewer updates than this wait on
\* the queue of progressPercent
MaxQueued == 2

\* the sessions of the model, each a number of clicks, of edits of the two
\* fields and of ticks of the interval: one of many clicks after or around
\* an edit, and one of few clicks through a whole simulation, which the
\* seven-step route ends at its 49th tick
MaxClicks == 5
MaxEdits == 1
FewClicks == 3
MaxTicks == 50
Sessions == {<<MaxClicks, MaxEdits, 0>>, <<FewClicks, 0, MaxTicks>>}

ZeroPercent == DoubleOfInt(0)
HundredPercent == DoubleOfInt(100)

\* a string of JavaScript as a condition
Truthy(text) == text # ""

\* navigationState.previousDestination is <<>> while undefined
NoPrevious == <<>>

\* the hooks of Index, of NavigationMap and of EmergencyFeature
IndexHooks == {"navigationState", "emergencyNavigationActive"}
MapHooks ==
    {"origin", "destination", "navigationSteps", "routeActive",
     "isEmergencyRoute", "destinationReached", "progressPercent"}
FeatureHooks == {"isEmergencyActive", "locations"}
Hooks == IndexHooks \cup MapHooks \cup FeatureHooks

AppInit ==
    [navigationState |-> [origin |-> "", destination |-> "",
                          previousDestination |-> NoPrevious],
     emergencyNavigationActive |-> FALSE,
     origin |-> "",
     destination |-> "",
     navigationSteps |-> 0,
     routeActive |-> FALSE,
     isEmergencyRoute |-> FALSE,
     destinationReached |-> FALSE,
     progressPercent |-> ZeroPercent,
     progressIntervalRef |-> NoInterval,
     isEmergencyActive |-> FALSE,
     locations |-> FALSE,     \* the list of locations is filled
     lookups |-> 0,           \* the pending timeouts of activateEmergency
     arrivalToast |-> FALSE]  \* the last toast is the one of the arrival

\* the lanes of an update: the one of a discrete event, the one of a timer
\* or an effect under createRoot, and the one of an update kept behind an
\* update that a render left out
SyncLane == "sync"
DefaultLane == "default"
NoLane == "none"

\* the updates a render under ReactDOM.render, or one of a later task,
\* takes, and those the render of a discrete event under createRoot takes
AllLanes == {SyncLane, DefaultLane, NoLane}
DiscreteLanes == {SyncLane, NoLane}

\* the lane of an update made by a timer or an effect
TaskLane == IF legacyRoot THEN SyncLane ELSE DefaultLane

\* the page as the handlers change it
World ==
    [app |-> app, queue |-> updateQueue, listener |-> listener,
     effects |-> mapEffects]

\* setX(value), and setX(prev => ...) as the kind of the updater
SetTo(hook, value) == [hook |-> hook, kind |-> "set", value |-> value]
Updater(hook, kind, value) == [hook |-> hook, kind |-> kind, value |-> value]

\* the calls of setters, in order, each put on the queue of its hook
RECURSIVE setState(_, _, _)
setState(w, lane, calls) ==
    IF Len(calls) = 0 THEN w
    ELSE setState([w EXCEPT !.queue[Head(calls).hook].pending =
                               Append(@, [lane |-> lane,
                                          kind |-> Head(calls).kind,
                                          value |-> Head(calls).value])],
                  lane, Tail(calls))

\* startNavigationSimulation (lines 311-375) up to the start of the interval:
\* the running interval is cleared and one over steps is started
startNavigationSimulation(w, lane, steps) ==
    [setState(w, lane, <<SetTo("destinationReached", FALSE),
                         SetTo("progressPercent", ZeroPercent)>>)
        EXCEPT !.app.progressIntervalRef = steps]

\* handleRouteSearch (lines 145-275) of the render with the values c
handleRouteSearch(w, lane, c, skipValidation) ==
    LET currentOrigin == IF Truthy(c.origin) THEN c.origin ELSE CurrentLocation
        mockSteps == MockSteps(c.destination, c.isEmergencyRoute)
        searched ==
            setState(w, lane,
                <<SetTo("destinationReached", FALSE),
                  SetTo("progressPercent", ZeroPercent),
                  Updater("navigationState", "route",
                          <<currentOrigin, c.destination>>),
                  SetTo("navigationSteps", mockSteps),
                  SetTo("routeActive", TRUE)>>)
    IN  IF ~skipValidation /\ ~Truthy(c.destination)
        THEN [w EXCEPT !.app.arrivalToast = FALSE]
        ELSE startNavigationSimulation(
                 [searched EXCEPT !.app.arrivalToast = FALSE], lane, mockSteps)

\* handleEmergencyNavigate (lines 77-96) of the listener with the values c
handleEmergencyNavigate(w, lane, c, detail) ==
    LET emergency ==
            setState(w, lane,
                (IF ~Truthy(c.origin)
                 THEN <<SetTo("origin", CurrentLocation),
                        Updater("navigationState", "origin", CurrentLocation)>>
                 ELSE <<>>)
                \o <<SetTo("destination", detail),
                     SetTo("isEmergencyRoute", TRUE)>>)
    IN  IF Truthy(detail) THEN handleRouteSearch(emergency, lane, c, TRUE) ELSE w

\* handleEmergencyClear (lines 98-110) of the listener with the values c
handleEmergencyClear(w, lane, c) ==
    IF c.isEmergencyRoute
    THEN setState(w, lane, <<SetTo("navigationSteps", 0),
                             SetTo("routeActive", FALSE),
                             SetTo("isEmergencyRoute", FALSE),
                             SetTo("destinationReached", FALSE),
                             SetTo("progressPercent", ZeroPercent)>>)
    ELSE w

\* handleCancelRoute (lines 277-309)
handleCancelRoute(w, lane) ==
    [setState(w, lane, <<SetTo("navigationSteps", 0),
                         SetTo("isEmergencyRoute", FALSE),
                         SetTo("destinationReached", FALSE),
                         SetTo("progressPercent", ZeroPercent),
                         SetTo("routeActive", FALSE),
                         Updater("navigationState", "destination", "")>>)
        EXCEPT !.app.progressIntervalRef = NoInterval]

\* handleNavigateToEmergency (Index.tsx 80-103) of the render with the
\* values r; the event goes to the listener with the values c
handleNavigateToEmergency(w, lane, r, c, location) ==
    LET updated ==
            setState(w, lane,
                (IF /\ Truthy(r.navigationState.destination)
                    /\ ~r.emergencyNavigationActive
                 THEN <<Updater("navigationState", "save", "")>>
                 ELSE <<>>)
                \o <<Updater("navigationState", "destination",
                             LocationText(location)),
                     SetTo("emergencyNavigationActive", TRUE)>>)
    IN  handleEmergencyNavigate(updated, lane, c, LocationText(location))

\* prev.previousDestination || ""
PreviousOrEmpty(navigation) ==
    IF navigation.previousDestination = NoPrevious THEN ""
    ELSE navigation.previousDestination[1]

\* handleDeactivateEmergency (Index.tsx 106-134) of the render with the
\* values r; the event goes to the listener with the values c
handleDeactivateEmergency(w, lane, r, c) ==
    LET restored ==
            IF Truthy(PreviousOrEmpty(r.navigationState))
            THEN handleEmergencyNavigate(
                     setState(w, lane,
                         <<Updater("navigationState", "restore", "")>>),
                     lane, c, PreviousOrEmpty(r.navigationState))
            ELSE handleEmergencyClear(
                     setState(w, lane,
                         <<Updater("navigationState", "destination", "")>>),
                     lane, c)
    IN  setState(IF r.emergencyNavigationActive THEN restored ELSE w, lane,
                 <<SetTo("emergencyNavigationActive", FALSE)>>)

\* incrementPerSecond (lines 331-333) of an interval over steps
IncrementOfFive == Divide(HundredPercent, DoubleOfInt(4 * 8))
IncrementOfSeven == Divide(HundredPercent, DoubleOfInt(6 * 8))
IncrementPerSecond(steps) ==
    IF steps = 5 THEN IncrementOfFive ELSE IncrementOfSeven

\* the updater of the interval (lines 328-373) with the progress it
\* computed: at 100 it clears the interval the ref holds, calls
\* setDestinationReached and shows the toast
ProgressUpdate(run, newProgress) ==
    IF GreaterEq(newProgress, HundredPercent)
    THEN [run EXCEPT !.state = newProgress,
                     !.interval = NoInterval,
                     !.reached = TRUE,
                     !.toast = TRUE]
    ELSE [run EXCEPT !.state = newProgress]

\* an update applied to the state of its hook
Reduce(run, update) ==
    CASE update.kind = "set" -> [run EXCEPT !.state = update.value]
      [] update.kind = "origin" -> [run EXCEPT !.state.origin = update.value]
      [] update.kind = "destination" ->
            [run EXCEPT !.state.destination = update.value]
      [] update.kind = "route" ->
            [run EXCEPT !.state.origin = update.value[1],
                        !.state.destination = update.value[2]]
      [] update.kind = "save" ->
            [run EXCEPT !.state.previousDestination = <<run.state.destination>>]
      [] update.kind = "restore" ->
            [run EXCEPT !.state.destination = PreviousOrEmpty(run.state)]
      [] update.kind = "tick" ->
            ProgressUpdate(run,
                MathMin(Plus(run.state, IncrementPerSecond(update.value)),
                        HundredPercent))

\* the queue of a hook processed by a render that takes the lanes: an
\* update of another lane is left on the queue, and so is, to be applied
\* again, every update after it
RECURSIVE ProcessQueue(_, _, _, _)
ProcessQueue(run, queue, i, lanes) ==
    IF i > Len(queue) THEN run
    ELSE IF queue[i].lane \notin lanes
    THEN ProcessQueue(
             [run EXCEPT !.pending = Append(@, queue[i]),
                         !.baseState = IF run.skipped THEN @ ELSE run.state,
                         !.skipped = TRUE],
             queue, i + 1, lanes)
    ELSE ProcessQueue(
             Reduce([run EXCEPT !.pending =
                                   IF run.skipped
                                   THEN Append(@, [queue[i] EXCEPT !.lane = NoLane])
                                   ELSE @,
                                !.applied = TRUE],
                    queue[i]),
             queue, i + 1, lanes)

\* a hook of the set has an update a render of the lanes is scheduled for
HasWork(w, hooks, lanes) ==
    {h \in hooks : \E i \in 1..Len(w.queue[h].pending) :
                      w.queue[h].pending[i].lane \in lanes \ {NoLane}} # {}

\* some update is waiting for a render
Queued(w) == HasWork(w, Hooks, AllLanes)

\* the hooks of the components a render of the lanes calls: a component
\* with an update of the lanes, and the children of Index with it
RenderedHooks(w, lanes) ==
    IF HasWork(w, IndexHooks, lanes) THEN Hooks
    ELSE (IF HasWork(w, MapHooks, lanes) THEN MapHooks ELSE {})
         \cup (IF HasWork(w, FeatureHooks, lanes) THEN FeatureHooks ELSE {})

\* the values the listeners of lines 112-113 read
ListenerOf(r) ==
    [origin |-> r.origin, destination |-> r.destination,
     isEmergencyRoute |-> r.isEmergencyRoute]

\* the hooks in the order the components call them
HookOrder ==
    <<"emergencyNavigationActive", "navigationState", "origin", "destination",
      "navigationSteps", "routeActive", "isEmergencyRoute",
      "destinationReached", "progressPercent", "isEmergencyActive",
      "locations">>

\* the queue of a hook as a render starts on it
StartOf(w, h) ==
    [state |-> w.queue[h].baseState,
     baseState |-> w.queue[h].baseState,
     pending |-> <<>>,
     skipped |-> FALSE,
     applied |-> FALSE,
     interval |-> w.app.progressIntervalRef,
     reached |-> FALSE,
     toast |-> w.app.arrivalToast]

\* the hook h of a render in progress returns the state its queue gave
HookCalled(pass, h, run) ==
    [pass EXCEPT
        !.w.app[h] = run.state,
        !.w.app.progressIntervalRef = run.interval,
        !.w.app.arrivalToast = run.toast,
        !.w.queue[h] = [baseState |-> IF run.skipped THEN run.baseState
                                      ELSE run.state,
                        pending |-> run.pending],
        !.reached = @ \/ run.reached,
        !.replaced = @ \/ (h = "navigationState" /\ run.applied)]

\* the components of a render call their hooks
RECURSIVE CallHooks(_, _, _, _)
CallHooks(pass, hooks, i, lanes) ==
    IF i > Len(hooks) THEN pass
    ELSE CallHooks(
             HookCalled(pass, hooks[i],
                 ProcessQueue(StartOf(pass.w, hooks[i]),
                              pass.w.queue[hooks[i]].pending, 1, lanes)),
             hooks, i + 1, lanes)

\* setDestinationReached(true), called by the updater of the interval
\* while NavigationMap renders, is applied by the pass that follows in the
\* same render
RenderPhaseUpdate(pass) ==
    IF pass.reached
    THEN [pass EXCEPT !.w.app.destinationReached = TRUE,
                      !.w.queue["destinationReached"].baseState =
                          IF Len(pass.w.queue["destinationReached"].pending) = 0
                          THEN TRUE ELSE @]
    ELSE pass

\* the commit of a render of the page w: the effects whose dependencies
\* changed are left to run, the one on [navigationState] (lines 60-73)
\* when the object was replaced, the one of the listeners (lines 76-119)
\* when isEmergencyRoute or origin changed
Commit(w, pass) ==
    [pass.w EXCEPT
        !.effects =
            (IF pass.replaced THEN {"navigationState"} ELSE {})
            \cup (IF \/ pass.w.app.isEmergencyRoute # w.app.isEmergencyRoute
                     \/ pass.w.app.origin # w.app.origin
                  THEN {"listeners"} ELSE {})]

\* a render of the lanes
Render(w, lanes) ==
    Commit(w, RenderPhaseUpdate(
                  CallHooks([w |-> w, reached |-> FALSE, replaced |-> FALSE],
                            SelectSeq(HookOrder,
                                LAMBDA h : h \in RenderedHooks(w, lanes)),
                            1, lanes)))

\* the effect on [navigationState] (lines 60-73) of the render with the
\* values r
SyncEffect(w, lane, r) ==
    LET synced ==
            setState(w, lane,
                <<SetTo("origin", r.navigationState.origin),
                  SetTo("destination", r.navigationState.destination)>>)
    IN  IF /\ Truthy(r.navigationState.destination)
           /\ r.navigationState.destination # r.destination
        THEN handleRouteSearch(synced, lane, r, TRUE)
        ELSE synced

\* the effects a render left are run, with the values of that render
RunMapEffects(w) ==
    [(IF "navigationState" \in w.effects
      THEN SyncEffect(w, TaskLane, w.app)
      ELSE w)
        EXCEPT !.listener = IF "listeners" \in w.effects
                            THEN ListenerOf(w.app)
                            ELSE @,
               !.effects = {}]

\* the effects of the render of a discrete event: at once under
\* createRoot, in a later task under ReactDOM.render
AfterRender(w) == IF legacyRoot THEN w ELSE RunMapEffects(w)

\* the rest of the task of a discrete event whose handler left w: the
\* effects still waiting, the render of the updates and what follows it
DiscreteEvent(w) ==
    AfterRender(Render(RunMapEffects(w),
                       IF legacyRoot THEN AllLanes ELSE DiscreteLanes))

\* a render of everything on the queues, the effects still waiting first
RenderAll(w) == Render(RunMapEffects(w), AllLanes)

\* the rest of the task of a timer whose callback left w: under
\* ReactDOM.render the update is rendered at once
TimerTask(w) == IF legacyRoot THEN RenderAll(w) ELSE w

\* the rest of the task that ran the effects and left w: under
\* ReactDOM.render the updates they made are rendered as they end
AfterEffects(w) == IF legacyRoot /\ Queued(w) THEN Render(w, AllLanes) ELSE w

\* the page becomes the one the task left
Becomes(page) ==
    \E w \in {page} :
        /\ app' = w.app
        /\ updateQueue' = w.queue
        /\ listener' = w.listener
        /\ mapEffects' = w.effects

\* the page as mounted
NavigationMounted ==
    /\ app = AppInit
    /\ updateQueue = [h \in Hooks |-> [baseState |-> AppInit[h], pending |-> <<>>]]
    /\ listener = ListenerOf(AppInit)
    /\ mapEffects = {}
    /\ destinationAtActivation = ""

\* the page outside the sessions of the navigation panels
NavigationIdle ==
    NavigationMounted /\ clicksLeft = 0 /\ editsLeft = 0 /\ ticksLeft = 0

NavigationInit ==
    /\ NavigationMounted
    /\ \E session \in Sessions :
          /\ clicksLeft = session[1]
          /\ editsLeft = session[2]
          /\ ticksLeft = session[3]

\* the session takes a click
TakesClick ==
    /\ clicksLeft > 0
    /\ clicksLeft' = clicksLeft - 1
    /\ UNCHANGED <<editsLeft, ticksLeft>>

\* the session takes an edit of a field
TakesEdit ==
    /\ editsLeft > 0
    /\ editsLeft' = editsLeft - 1
    /\ UNCHANGED <<clicksLeft, ticksLeft>>

\* the session takes a tick of the interval, while the queue of
\* progressPercent is short enough for another
TakesTick ==
    /\ Len(updateQueue["progressPercent"].pending) < MaxQueued
    /\ ticksLeft > 0
    /\ ticksLeft' = ticksLeft - 1
    /\ UNCHANGED <<clicksLeft, editsLeft>>

\* a timeout or a task of React counts as neither
TakesTask == UNCHANGED <<clicksLeft, editsLeft, ticksLeft>>

\* onChange of the origin field (lines 401-409)
changeOrigin ==
    /\ TakesEdit
    /\ \E text \in TypedOrigins :
          Becomes(DiscreteEvent(
              setState(World, SyncLane,
                  <<SetTo("origin", text),
                    Updater("navigationState", "origin", text)>>)))
    /\ UNCHANGED destinationAtActivation
    /\ UNCHANGED <<trackVars, loopVars, iouVars, cycleVars, monVars, matchVars,
                   streamVars, heapVars, flowVars, distanceVars>>

\* onChange of the destination field (lines 417-425)
changeDestination ==
    /\ TakesEdit
    /\ \E text \in TypedDestinations :
          Becomes(DiscreteEvent(
              setState(World, SyncLane,
                  <<SetTo("destination", text),
                    Updater("navigationState", "destination", text)>>)))
    /\ UNCHANGED destinationAtActivation
    /\ UNCHANGED <<trackVars, loopVars, iouVars, cycleVars, monVars, matchVars,
                   streamVars, heapVars, flowVars, distanceVars>>

\* onSubmit of the form (line 395); with no destination the handler returns
\* at line 153, no setter called
submitRoute ==
    /\ TakesClick
    /\ Becomes(IF Truthy(app.destination)
               THEN DiscreteEvent(handleRouteSearch(World, SyncLane, app, FALSE))
               ELSE handleRouteSearch(World, SyncLane, app, FALSE))
    /\ UNCHANGED destinationAtActivation
    /\ UNCHANGED <<trackVars, loopVars, iouVars, cycleVars, monVars, matchVars,
                   streamVars, heapVars, flowVars, distanceVars>>

\* the Cancel button, shown while routeActive (lines 459-467)
cancelRoute ==
    /\ TakesClick
    /\ app.routeActive
    /\ Becomes(DiscreteEvent(handleCancelRoute(World, SyncLane)))
    /\ UNCHANGED destinationAtActivation
    /\ UNCHANGED <<trackVars, loopVars, iouVars, cycleVars, monVars, matchVars,
                   streamVars, heapVars, flowVars, distanceVars>>

\* a tick of the interval of startNavigationSimulation (lines 327-328): the
\* updater is put on the queue of progressPercent
progressTick ==
    /\ TakesTick
    /\ app.progressIntervalRef # NoInterval
    /\ Becomes(TimerTask(
           setState(World, TaskLane,
               <<Updater("progressPercent", "tick", app.progressIntervalRef)>>)))
    /\ UNCHANGED destinationAtActivation
    /\ UNCHANGED <<trackVars, loopVars, iouVars, cycleVars, monVars, matchVars,
                   streamVars, heapVars, flowVars, distanceVars>>

\* activateEmergency (NavigationInput.tsx 121-168) up to the timeout
activateEmergency ==
    /\ TakesClick
    /\ ~app.isEmergencyActive
    /\ app.lookups < MaxLookups
    /\ Becomes(DiscreteEvent(
           setState([World EXCEPT !.app.lookups = @ + 1,
                                  !.app.arrivalToast = FALSE],
                    SyncLane, <<SetTo("isEmergencyActive", TRUE)>>)))
    /\ UNCHANGED destinationAtActivation
    /\ UNCHANGED <<trackVars, loopVars, iouVars, cycleVars, monVars, matchVars,
                   streamVars, heapVars, flowVars, distanceVars>>

\* the timeout of activateEmergency (NavigationInput.tsx 130-167)
locationsFound ==
    /\ TakesTask
    /\ app.lookups > 0
    /\ Becomes(TimerTask(
           setState([World EXCEPT !.app.lookups = @ - 1,
                                  !.app.arrivalToast = FALSE],
                    TaskLane, <<SetTo("locations", TRUE)>>)))
    /\ UNCHANGED destinationAtActivation
    /\ UNCHANGED <<trackVars, loopVars, iouVars, cycleVars, monVars, matchVars,
                   streamVars, heapVars, flowVars, distanceVars>>

\* handleNavigate (NavigationInput.tsx 184-194) on a location of the list
handleNavigate ==
    /\ TakesClick
    /\ app.isEmergencyActive
    /\ app.locations
    /\ \E location \in EmergencyLocations :
          Becomes(DiscreteEvent(
              [handleNavigateToEmergency(World, SyncLane, app, listener, location)
                  EXCEPT !.app.arrivalToast = FALSE]))
    /\ destinationAtActivation' =
          IF app.emergencyNavigationActive THEN destinationAtActivation
          ELSE app.navigationState.destination
    /\ UNCHANGED <<trackVars, loopVars, iouVars, cycleVars, monVars, matchVars,
                   streamVars, heapVars, flowVars, distanceVars>>

\* deactivateEmergency (NavigationInput.tsx 171-182)
deactivateEmergency ==
    /\ TakesClick
    /\ app.isEmergencyActive
    /\ Becomes(DiscreteEvent(
           [handleDeactivateEmergency(
                setState(World, SyncLane, <<SetTo("isEmergencyActive", FALSE),
                                            SetTo("locations", FALSE)>>),
                SyncLane, app, listener)
               EXCEPT !.app.arrivalToast = FALSE]))
    /\ UNCHANGED destinationAtActivation
    /\ UNCHANGED <<trackVars, loopVars, iouVars, cycleVars, monVars, matchVars,
                   streamVars, heapVars, flowVars, distanceVars>>

\* the task that renders the updates timers and effects made under
\* createRoot; its effects wait for a later task
renderQueuedState ==
    /\ Queued(World)
    /\ Becomes(RenderAll(World))
    /\ TakesTask
    /\ UNCHANGED destinationAtActivation
    /\ UNCHANGED <<trackVars, loopVars, iouVars, cycleVars, monVars, matchVars,
                   streamVars, heapVars, flowVars, distanceVars>>

\* the task that runs the effects a render left; under ReactDOM.render the
\* updates they make are rendered as they end
mapPassiveEffects ==
    /\ mapEffects # {}
    /\ Becomes(AfterEffects(RunMapEffects(World)))
    /\ TakesTask
    /\ UNCHANGED destinationAtActivation
    /\ UNCHANGED <<trackVars, loopVars, iouVars, cycleVars, monVars, matchVars,
                   streamVars, heapVars, flowVars, distanceVars>>

-----------------------------------------------------------------------------
\* nothing of the specifications that follow the traffic-flow calls is
\* being looked at
ExtraIdle == DistanceIdle /\ NavigationIdle

-----------------------------------------------------------------------------
(* TrafficMonitoring: the vehicle list of the context changes, Index      *)
(* renders again or isEnabled changes, and the effect of lines 22-32 runs  *)
(* after the render                                                        *)

Vehicle(id, risk) ==
    [id |-> id, type |-> "car", distance |-> DoubleOfInt(25),
     speed |-> DoubleOfInt(50), trajectory |-> "parallel",
     collisionRisk |-> risk,
     bbox |-> <<DoubleOfInt(0), DoubleOfInt(0), DoubleOfInt(8), DoubleOfInt(7)>>]

\* collisionRisk values on both sides of 0.7, 0.7 itself and the double next
\* above it, 0.28 * 2.5
MonitoredRisks ==
    { DoubleOfInt(0), OneHalf, SevenTenths,
      Times(DoubleOf(<<28, 100>>), TwoAndAHalf), DoubleOf(<<71, 100>>),
      DoubleOfInt(1) }

\* the lists given to setDetectedVehicles
VehicleLists ==
    {<<>>}
    \cup {<<Vehicle(0, r)>> : r \in MonitoredRisks}
    \cup {<<Vehicle(0, r), Vehicle(1, q)>> : r \in MonitoredRisks, q \in MonitoredRisks}

\* setDetectedVehicles(list): the context holds a new list
setDetectedVehicles ==
    /\ effectRuns < MaxEffectRuns
    /\ \E list \in VehicleLists : detectedVehicles' = list
    /\ effectPending' = TRUE
    /\ UNCHANGED <<isEnabled, highRiskCalls, effectRuns, cycleVars, trackVars, loopVars, iouVars, matchVars, streamVars, heapVars, flowVars, extraVars>>

\* Index renders again: handleHighRiskVehicleDetected is a new function, so
\* the effect is to run again on the same list
renderIndex ==
    /\ effectRuns < MaxEffectRuns
    /\ effectPending' = TRUE
    /\ UNCHANGED <<detectedVehicles, isEnabled, highRiskCalls, effectRuns, cycleVars, trackVars, loopVars, iouVars, matchVars, streamVars, heapVars, flowVars, extraVars>>

\* the parent renders TrafficMonitoring with another isEnabled (Index.tsx
\* passes true)
setIsEnabled ==
    /\ effectRuns < MaxEffectRuns
    /\ isEnabled' = ~isEnabled
    /\ effectPending' = TRUE
    /\ UNCHANGED <<detectedVehicles, highRiskCalls, effectRuns, cycleVars, trackVars, loopVars, iouVars, matchVars, streamVars, heapVars, flowVars, extraVars>>

-----------------------------------------------------------------------------
(* The matching step of trackDetections on one detection and a list of    *)
(* previous tracks                                                        *)

\* boxes of detections and tracks: (12,11,50,50) overlaps (10,10,50,50) and
\* (14,12,50,50) equally
MatchBoxes ==
    { <<Num(10), Num(10), Num(50), Num(50)>>,
      <<Num(12), Num(11), Num(50), Num(50)>>,
      <<Num(14), Num(12), Num(50), Num(50)>>,
      <<Num(10), Num(10), Num(50), Num(100)>>,
      <<Num(500), Num(500), Num(50), Num(50)>>,
      <<Num(10), Num(10), Num(0), Num(0)>> }

\* the lists of at most MaxPrevious tracks; the track at index i has trackId i
PreviousLists ==
    UNION { [1..n -> MatchBoxes] : n \in 0..MaxPrevious }

PreviousTracks(boxes) ==
    [i \in 1..Len(boxes) |->
        Tracked([id |-> i - 1, class |-> "car", bbox |-> boxes[i]], i, 1, 0)]

\* values of the parameter iouThreshold: the default, a stricter one, and one
\* below every IoU
MatchThresholds == {DefaultIouThreshold, <<9, 10>>, Num(-1)}

MatchIdle ==
    /\ matchArgs = <<>>
    /\ matchResult = [done |-> FALSE, bestMatch |-> 0]

MatchInit ==
    /\ matchArgs \in [detection : {[id |-> 0, class |-> "car", bbox |-> b] : b \in MatchBoxes},
                      previousDetections : {PreviousTracks(l) : l \in PreviousLists},
                      iouThreshold : MatchThresholds]
    /\ matchResult = [done |-> FALSE, bestMatch |-> 0]

\* lines 255-264 for the detection
callBestMatch ==
    /\ matchArgs # <<>>
    /\ ~matchResult.done
    /\ matchResult' = [done |-> TRUE,
                       bestMatch |-> BestMatch(matchArgs.detection,
                                               matchArgs.previousDetections,
                                               matchArgs.iouThreshold)]
    /\ UNCHANGED <<matchArgs, trackVars, loopVars, iouVars, cycleVars, monVars, streamVars, heapVars, flowVars, extraVars>>

-----------------------------------------------------------------------------
(* Two video streams, each with a track set of its own, calling             *)
(* trackDetections in any order                                             *)

Streams == {"A", "B"}

\* the batches of the streams
StreamBatches == {<<>>, Batch(<<1>>), Batch(<<2>>), Batch(<<1, 3>>)}

StreamsIdle ==
    /\ streams = [s \in Streams |-> <<>>]
    /\ streamLog = [s \in Streams |-> <<>>]

\* the steps of Date.now() between two calls of the streams, in ms: the same
\* millisecond, and the first step outside the default window
StreamSteps == {0, 167}

\* the calls the two streams have made
StreamFrames == Len(streamLog["A"]) + Len(streamLog["B"])

\* stream s processes a frame: trackDetections(batch, its own track set).
\* The log of the stream keeps the arguments, the time and the result
streamFrame ==
    \E s \in Streams, batch \in StreamBatches, dt \in StreamSteps :
        /\ now + dt <= MaxTime
        /\ StreamFrames < MaxStreamFrames
        /\ LET out == trackDetections(batch, streams[s], DefaultMaxAge,
                                      DefaultIouThreshold, now + dt)
           IN  /\ streams' = [streams EXCEPT ![s] = out]
               /\ streamLog' = [streamLog EXCEPT
                                  ![s] = Append(@, [batch |-> batch,
                                                    previous |-> streams[s],
                                                    at |-> now + dt,
                                                    out |-> out])]
        /\ now' = now + dt
        /\ UNCHANGED <<tracks, prevIn, matchOf, maxIssued, fed, loopVars, iouVars,
                       cycleVars, monVars, matchVars, heapVars, flowVars, extraVars>>

-----------------------------------------------------------------------------
(* trackDetections on objects: a detection, a track and an array are        *)
(* objects of the heap, and the arguments and the result of a call are     *)
(* references.  The array a call returns is the next call's                *)
(* previousDetections.                                                     *)

\* the objects the array of references refs holds
Deref(h, refs) == [i \in 1..Len(refs) |-> h[refs[i]]]

\* the references Len(h) + 1, ..., Len(h) + n of n objects created on heap h
NewRefs(h, n) == [i \in 1..n |-> Len(h) + i]

\* an object literal or a new array: the heap holds one more object, and its
\* reference is Len(h) + 1
HeapNew(h, object) == Append(h, object)

\* array.push(r) on the array at reference array
HeapPush(h, array, r) == [h EXCEPT ![array] = Append(@, r)]

\* a variant that updates the matched track itself before it returns the
\* entry
MapCallbackInPlace(h, detection, bestMatch, nextTrackId, t) ==
    IF bestMatch # 0
    THEN HeapNew([h EXCEPT ![bestMatch] = UpdatedTrack(h[detection], @, t)],
                 UpdatedTrack(h[detection], h[bestMatch], t))
    ELSE HeapNew(h, NewTrack(h[detection], nextTrackId, t))

\* what the callback of map returns (lines 266-282) for the detection at
\* reference detection, bestMatch being the reference of the matched track
\* or 0 for null: the object literal reads the two objects and is a new one
MapCallback(h, detection, bestMatch, nextTrackId, t) ==
    HeapNew(h, IF bestMatch # 0
               THEN UpdatedTrack(h[detection], h[bestMatch], t)
               ELSE NewTrack(h[detection], nextTrackId, t))

\* currentDetections.map(...) of lines 253-283 from the i-th detection on:
\* the heap after it and the reference of the array it returns, results
\* being the references the callback has returned so far
RECURSIVE HeapMap(_, _, _, _, _, _, _, _)
HeapMap(h, currentDetections, previousDetections, iouThreshold, t, i, nextTrackId, results) ==
    IF i > Len(h[currentDetections])
    THEN [heap |-> HeapNew(h, results), ref |-> Len(h) + 1]
    ELSE LET detection == h[currentDetections][i]
             m == BestMatch(h[detection], Deref(h, h[previousDetections]),
                            iouThreshold)
             bestMatch == IF m = 0 THEN 0 ELSE h[previousDetections][m]
         IN  CHOOSE after \in
                 { HeapMap(returns, currentDetections, previousDetections,
                           iouThreshold, t, i + 1,
                           IF m = 0 THEN nextTrackId + 1 ELSE nextTrackId,
                           Append(results, Len(h) + 1)) :
                   returns \in {MapCallback(h, detection, bestMatch,
                                            nextTrackId, t)} } : TRUE

\* the forEach of lines 286-298 from the i-th previous track on: some reads
\* the array at trackedDetections as it grows, and push extends it by a new
\* object that the spread of prevDet fills
RECURSIVE HeapCarry(_, _, _, _, _, _)
HeapCarry(h, trackedDetections, previousDetections, maxAge, t, i) ==
    IF i > Len(h[previousDetections]) THEN h
    ELSE LET prevDet == h[h[previousDetections][i]]
             wasMatched ==
                 \E k \in 1..Len(h[trackedDetections]) :
                     h[h[trackedDetections][k]].trackId = prevDet.trackId
         IN  CHOOSE after \in
                 { HeapCarry(pushed, trackedDetections, previousDetections,
                             maxAge, t, i + 1) :
                   pushed \in {IF ~wasMatched /\ StillValid(prevDet, t, maxAge)
                               THEN HeapPush(HeapNew(h, prevDet),
                                             trackedDetections, Len(h) + 1)
                               ELSE h} } : TRUE

\* a call of trackDetections on the arrays at the references
\* currentDetections and previousDetections: the heap after the call and the
\* reference it returns
HeapAfterCall(h, currentDetections, previousDetections, maxAge, iouThreshold, t) ==
    CHOOSE after \in
        { [heap |-> HeapCarry(mapped.heap, mapped.ref, previousDetections,
                              maxAge, t, 1),
           ref |-> mapped.ref] :
          mapped \in {HeapMap(h, currentDetections, previousDetections,
                              iouThreshold, t, 1,
                              InitialNextTrackId(Deref(h, h[previousDetections])),
                              <<>>)} } : TRUE

\* an empty array of tracks is the first previousDetections
HeapInit ==
    /\ heap = << <<>> >>
    /\ returned = 1
    /\ before = [heap |-> << <<>> >>, currentDetections |-> 1,
                 previousDetections |-> 1]

\* the detector creates the detections of a frame and their array, and
\* trackDetections is called on it and on the array returned last
trackDetectionsCall ==
    \E batch \in StreamBatches, dt \in TimeSteps :
        /\ now + dt <= MaxTime
        /\ \E h \in {heap \o batch \o <<NewRefs(heap, Len(batch))>>} :
              \E call \in {HeapAfterCall(h, Len(h), returned, DefaultMaxAge,
                                         DefaultIouThreshold, now + dt)} :
                 /\ before' = [heap |-> h, currentDetections |-> Len(h),
                               previousDetections |-> returned]
                 /\ heap' = call.heap
                 /\ returned' = call.ref
        /\ now' = now + dt
        /\ UNCHANGED <<tracks, prevIn, matchOf, maxIssued, fed, loopVars, iouVars,
                       cycleVars, monVars, matchVars, streamVars, flowVars, extraVars>>

-----------------------------------------------------------------------------
(* The specifications *)

Init ==
    /\ TrackInit /\ LoopIdle /\ IoUIdle /\ CycleIdle /\ MatchIdle /\ StreamsIdle
    /\ HeapInit /\ FlowIdle /\ ExtraIdle

Next == Frame

\* a tracking session
Spec == Init /\ [][Next]_vars

LoopNext ==
    \/ handleFileSelect
    \/ activateWebcamClick
    \/ activateWebcamGranted
    \/ renderQueuedUpdates
    \/ passiveEffects
    \/ activateWebcamDenied
    \/ stopWebcam
    \/ togglePlayback
    \/ videoEnds
    \/ toggleModelType
    \/ loadModelDone
    \/ loadModelFailed
    \/ animationFrame
    \/ detectSettles

LoopStart ==
    /\ TrackInit /\ LoopInit /\ IoUIdle /\ CycleIdle /\ MatchIdle /\ StreamsIdle
    /\ HeapInit /\ FlowIdle /\ ExtraIdle

\* a run of the VideoFeed component under either kind of root
LoopSpec == LoopStart /\ [][LoopNext]_vars

IoUNext == callCalculateIoU

IoUStart ==
    /\ TrackInit /\ LoopIdle /\ IoUInit /\ CycleIdle /\ MatchIdle /\ StreamsIdle
    /\ HeapInit /\ FlowIdle /\ ExtraIdle

\* one call of calculateIoU on any pair of the boxes
IoUSpec == IoUStart /\ [][IoUNext]_vars

CycleNext ==
    \/ detectObjectsBody
    \/ trafficMonitoringEffect
    \/ detectLanePositionAgain

CycleStart ==
    /\ TrackInit /\ LoopIdle /\ IoUIdle /\ CycleInit /\ MatchIdle /\ StreamsIdle
    /\ HeapInit /\ FlowIdle /\ ExtraIdle

\* one cycle of detectObjects on any of the inputs
CycleSpec == CycleStart /\ [][CycleNext]_vars

ManyStart ==
    /\ TrackInit /\ LoopIdle /\ IoUIdle /\ ManyInit /\ MatchIdle /\ StreamsIdle
    /\ HeapInit /\ FlowIdle /\ ExtraIdle

\* one cycle of detectObjects on any of the inputs, the batch of
\* ManyDetections detections among them
ManySpec == ManyStart /\ [][CycleNext]_vars

MonitorNext ==
    \/ setDetectedVehicles
    \/ renderIndex
    \/ setIsEnabled
    \/ trafficMonitoringEffect

\* TrafficMonitoring under changes of the vehicle list
MonitorSpec == Init /\ [][MonitorNext]_vars

MatchNext == callBestMatch

MatchStart ==
    /\ TrackInit /\ LoopIdle /\ IoUIdle /\ CycleIdle /\ MatchInit /\ StreamsIdle
    /\ HeapInit /\ FlowIdle /\ ExtraIdle

\* the matching of one detection against any of the lists of previous tracks
MatchSpec == MatchStart /\ [][MatchNext]_vars

FlowNext == callTrafficFlow

FlowStart ==
    /\ TrackInit /\ LoopIdle /\ IoUIdle /\ CycleIdle /\ MatchIdle /\ StreamsIdle
    /\ HeapInit /\ FlowInit /\ ExtraIdle

\* one call of each traffic-flow function on any of the detection lists
FlowSpec == FlowStart /\ [][FlowNext]_vars

DistanceNext == computeDistances

DistanceStart ==
    /\ TrackInit /\ LoopIdle /\ IoUIdle /\ CycleIdle /\ MatchIdle /\ StreamsIdle
    /\ HeapInit /\ FlowIdle /\ DistanceInit /\ NavigationIdle

\* the distances of any two of the boxes
DistanceSpec == DistanceStart /\ [][DistanceNext]_vars

NavigationNext ==
    \/ changeOrigin
    \/ changeDestination
    \/ submitRoute
    \/ cancelRoute
    \/ progressTick
    \/ activateEmergency
    \/ locationsFound
    \/ handleNavigate
    \/ deactivateEmergency
    \/ renderQueuedState
    \/ mapPassiveEffects

NavigationStart ==
    /\ TrackInit /\ LoopInit /\ IoUIdle /\ CycleIdle /\ MatchIdle /\ StreamsIdle
    /\ HeapInit /\ FlowIdle /\ DistanceIdle /\ NavigationInit

\* a session of the navigation and emergency panels under either kind of
\* root
NavigationSpec == NavigationStart /\ [][NavigationNext]_vars

StreamsNext == streamFrame

\* two streams calling trackDetections in any order
StreamsSpec == Init /\ [][StreamsNext]_vars

HeapNext == trackDetectionsCall

\* a session of trackDetections calls on objects
HeapSpec == Init /\ [][HeapNext]_vars

-----------------------------------------------------------------------------
(* Vocabulary of the properties of trackDetections *)

\* the currentDetections argument of the last call
curIn == IF fed = <<>> THEN <<>> ELSE Batch(fed[Len(fed)])

\* the IoU of the last call's k-th current detection and j-th previous entry
PairIoU(k, j) == calculateIoU(curIn[k].bbox, prevIn[j].bbox)

\* the current detection k of the last call was matched to no previous entry
Unmatched(k) == matchOf[k] = 0

\* no current detection of the last call was matched to the previous entry j
NotMatchedBy(j) == \A k \in 1..Len(matchOf) : matchOf[k] # j

\* t - lastSeen has reached the default window of 5 * 1000/30 ms
Expired(entry, t) == 30 * (t - entry.lastSeen) >= 1000 * DefaultMaxAge

TrackIds(list) == {list[i].trackId : i \in 1..Len(list)}

DistinctTrackIds(list) ==
    \A i, j \in 1..Len(list) : i # j => list[i].trackId # list[j].trackId

\* a box with a NaN coordinate or a negative width or height
Malformed(bbox) ==
    \/ \E c \in 1..4 : IsNaN(bbox[c])
    \/ Less(bbox[3], Num(0))
    \/ Less(bbox[4], Num(0))

-----------------------------------------------------------------------------
(* C1..C7: trackDetections *)

\* C1: every trackId allocated by a call is strictly greater than every
\* trackId issued earlier in the session (no trackId is ever reused).
C1_AllocatedIdsAboveAllIssued ==
    \A k \in 1..Len(curIn) : Unmatched(k) => tracks[k].trackId > maxIssued

\* C2: for a previous set with pairwise distinct trackIds, the returned list
\* holds no two entries with the same trackId.
C2_ReturnedTrackIdsDistinct ==
    DistinctTrackIds(prevIn) => DistinctTrackIds(tracks)

\* C3 as stated: a current detection whose IoU is >= 0.5 against exactly one
\* previous track and < 0.5 against every other one carries that track's
\* trackId and its framesDetected + 1.
C3_AtLeastHalfReusesTrack ==
    \A k \in 1..Len(curIn) :
        LET iou == [j \in 1..Len(prevIn) |-> PairIoU(k, j)]
        IN  \A j \in 1..Len(prevIn) :
               ( /\ GreaterEq(iou[j], DefaultIouThreshold)
                 /\ \A o \in 1..Len(prevIn) :
                       o # j => Less(iou[o], DefaultIouThreshold) )
               => /\ tracks[k].trackId = prevIn[j].trackId
                  /\ tracks[k].framesDetected = prevIn[j].framesDetected + 1

\* C3 as amended: a current detection whose IoU is > 0.5 against exactly one
\* previous track and < 0.5 against every other one carries that track's
\* trackId and its framesDetected + 1; a detection whose IoU is exactly 0.5
\* against a track and above 0.5 against none matches no track: it gets a
\* trackId that no previous entry has and framesDetected = 1.
C3_AboveHalfReusesTrack ==
    \A k \in 1..Len(curIn) :
        LET iou == [j \in 1..Len(prevIn) |-> PairIoU(k, j)]
        IN  /\ \A j \in 1..Len(prevIn) :
                  ( /\ Greater(iou[j], DefaultIouThreshold)
                    /\ \A o \in 1..Len(prevIn) :
                          o # j => Less(iou[o], DefaultIouThreshold) )
                  => /\ tracks[k].trackId = prevIn[j].trackId
                     /\ tracks[k].framesDetected = prevIn[j].framesDetected + 1
            /\ ( /\ \E j \in 1..Len(prevIn) :
                       /\ GreaterEq(iou[j], DefaultIouThreshold)
                       /\ ~Greater(iou[j], DefaultIouThreshold)
                 /\ \A o \in 1..Len(prevIn) :
                       ~Greater(iou[o], DefaultIouThreshold) )
               => /\ tracks[k].trackId \notin TrackIds(prevIn)
                  /\ tracks[k].framesDetected = 1

\* a call with two previous tracks in which one detection overlaps exactly
\* one of them above 0.5 and another detection overlaps a track at exactly 0.5
C3_Witness ==
    /\ Len(prevIn) >= 2
    /\ \E k \in 1..Len(curIn) : \E j \in 1..Len(prevIn) :
          /\ Greater(PairIoU(k, j), DefaultIouThreshold)
          /\ Less(PairIoU(k, j), Num(1))
          /\ \A o \in 1..Len(prevIn) :
                o # j => Less(PairIoU(k, o), DefaultIouThreshold)
          /\ tracks[k].framesDetected >= 2
    /\ \E k \in 1..Len(curIn) :
          /\ \E j \in 1..Len(prevIn) :
                /\ GreaterEq(PairIoU(k, j), DefaultIouThreshold)
                /\ ~Greater(PairIoU(k, j), DefaultIouThreshold)
          /\ \A o \in 1..Len(prevIn) :
                ~Greater(PairIoU(k, o), DefaultIouThreshold)
          /\ tracks[k].framesDetected = 1

\* C4: box (10,10,50,50) in frame 1 and box (12,11,50,50) in frame 2 get the
\* same trackId; box (500,500,50,50) in frame 3 gets a strictly greater one.
C4_ThreeFrameScenario ==
    /\ fed = << <<1>>, <<2>> >> => tracks[1].trackId = prevIn[1].trackId
    /\ fed = << <<1>>, <<2>>, <<3>> >> =>
          /\ prevIn[1].trackId = 1
          /\ tracks[1].trackId > prevIn[1].trackId

\* the third frame of the scenario, every frame inside the max-age window
C4_Witness ==
    /\ fed = << <<1>>, <<2>>, <<3>> >>
    /\ ~Expired(prevIn[1], now)
    /\ prevIn[1].framesDetected = 2

\* C5: a previous track that no current detection matched and whose age
\* now - lastSeen has reached the window is absent from the returned set, and
\* every returned entry has now - lastSeen below the window.
C5_ExpiredUnmatchedDropped ==
    /\ \A i \in 1..Len(tracks) : ~Expired(tracks[i], now)
    /\ \A j \in 1..Len(prevIn) :
          (NotMatchedBy(j) /\ Expired(prevIn[j], now)) =>
             /\ \A i \in 1..Len(tracks) : tracks[i] # prevIn[j]
             /\ (\A o \in 1..Len(prevIn) :
                    prevIn[o].trackId = prevIn[j].trackId => NotMatchedBy(o))
                => prevIn[j].trackId \notin TrackIds(tracks)

\* a call that drops an expired unmatched track while it returns other entries
C5_Witness ==
    /\ tracks # <<>>
    /\ \E j \in 1..Len(prevIn) : NotMatchedBy(j) /\ Expired(prevIn[j], now)

\* C6: a previous track whose age has reached the window is never matched: a
\* current detection overlapping it above the threshold gets a freshly
\* allocated trackId with framesDetected = 1.
C6_ExpiredTrackNotRevived ==
    \A k \in 1..Len(curIn) : \A j \in 1..Len(prevIn) :
        (Expired(prevIn[j], now) /\ Greater(PairIoU(k, j), DefaultIouThreshold))
        => /\ tracks[k].framesDetected = 1
           /\ tracks[k].trackId \notin TrackIds(prevIn)

\* C7: a malformed box (negative width or height, NaN coordinate) is rejected
\* before matching: it takes part in no IoU computation, matches no track and
\* is matched by no detection.
C7_MalformedBoxesRejected ==
    /\ \A c \in IoUCalls(curIn, prevIn) :
          ~Malformed(curIn[c[1]].bbox) /\ ~Malformed(prevIn[c[2]].bbox)
    /\ \A k \in 1..Len(curIn) : Malformed(curIn[k].bbox) => Unmatched(k)
    /\ \A j \in 1..Len(prevIn) : Malformed(prevIn[j].bbox) => NotMatchedBy(j)

-----------------------------------------------------------------------------
(* C8..C10: the detectObjects loop *)

\* C8: a frame whose detector call fails is handled as a frame with zero
\* detections: the batch published for that frame is empty.
C8_FailedFrameIsEmptyFrame ==
    lastFrame.outcome = "detect" => detections = <<>>

\* C9: whatever step of a cycle throws, the exception does not escape
\* detectObjects and the next animation frame is scheduled.
C9_NextFrameScheduled ==
    [][ lastFrame' # lastFrame =>
          /\ ~lastFrame'.escaped
          /\ nextRafId' > nextRafId
          /\ requestAnimationFrameRef' = nextRafId' - 1
          /\ lastFrame'.next = requestAnimationFrameRef'
          /\ \E e \in rafQueue' :
                e.id = requestAnimationFrameRef' /\ e.cl.isPlaying ]_vars

\* a cycle in which a step threw after the detector call had resolved, with
\* its next callback pending
C9_Witness ==
    /\ lastFrame.outcome = "draw"
    /\ detections # <<>>
    /\ \E e \in rafQueue : e.id = lastFrame.next

\* C10: at no time are two executions of detectObjects in progress at once.
C10_OneCycleAtATime ==
    Cardinality(inFlight) <= 1

-----------------------------------------------------------------------------
(* C11: the Associator in the frame cycle *)

\* C11: every detection published for a frame has been through
\* trackDetections: it carries a trackId, framesDetected and lastSeen.
C11_PublishedDetectionsTagged ==
    \A i \in 1..Len(detections) :
        {"trackId", "framesDetected", "lastSeen"} \subseteq DOMAIN detections[i]

-----------------------------------------------------------------------------
(* C12, C13: calculateIoU *)

RECURSIVE Gcd(_, _)
Gcd(m, n) == IF n = 0 THEN m ELSE Gcd(n, m % n)

\* the number a in lowest terms
Reduced(a) ==
    IF IsNaN(a) THEN NaN
    ELSE LET g == Gcd(IF a[1] < 0 THEN -a[1] ELSE a[1], a[2])
         IN  IF g = 0 THEN a ELSE <<a[1] \div g, a[2] \div g>>

\* the numbers a and b are equal (false when either is NaN)
NumEq(a, b) ==
    /\ ~IsNaN(a)
    /\ ~IsNaN(b)
    /\ IF IsDouble(a) \/ IsDouble(b) THEN DoubleCmp(DoubleOf(a), DoubleOf(b)) = 0
       ELSE Reduced(a) = Reduced(b)

\* the number a is greater than 0
Positive(a) ==
    /\ ~IsNaN(a)
    /\ IF IsDouble(a) THEN a[1] = 1 /\ ~DoubleIsZero(a) ELSE Greater(a, Num(0))

PositiveBox(bbox) == Positive(bbox[3]) /\ Positive(bbox[4])

ZeroAreaBox(bbox) == NumEq(bbox[3], Num(0)) \/ NumEq(bbox[4], Num(0))

\* x + w <= c for the numbers themselves, without rounding
SumAtMost(x, w, c) ==
    IF IsDouble(x)
    THEN ~Positive(DyadicPlus(DyadicPlus(x, w), DoubleNegate(c)))
    ELSE GreaterEq(c, Plus(x, w))

\* the interiors of the two boxes share no point: they are apart or touch
\* along an edge or at a corner only
NoOverlap(a, b) ==
    \/ SumAtMost(b[1], b[3], a[1])
    \/ SumAtMost(a[1], a[3], b[1])
    \/ SumAtMost(b[2], b[4], a[2])
    \/ SumAtMost(a[2], a[4], b[2])

\* C12: for boxes of positive width and height calculateIoU is symmetric, is 0
\* when the boxes do not overlap, and is 1 when the boxes are identical.
C12_SymmetricZeroApartOneIdentical ==
    ( /\ iouResult.done
      /\ PositiveBox(iouArgs[1])
      /\ PositiveBox(iouArgs[2]) )
    => /\ NumEq(iouResult.ab, iouResult.ba)
       /\ NoOverlap(iouArgs[1], iouArgs[2]) => NumEq(iouResult.ab, Num(0))
       /\ iouArgs[1] = iouArgs[2] => NumEq(iouResult.ab, Num(1))

\* C13: when either box has zero area, calculateIoU returns the number 0: no
\* division by zero, no NaN.
C13_ZeroAreaGivesZero ==
    ( /\ iouResult.done
      /\ ZeroAreaBox(iouArgs[1]) \/ ZeroAreaBox(iouArgs[2]) )
    => NumEq(iouResult.ab, Num(0))

-----------------------------------------------------------------------------
(* C14..C17: the published outputs of a cycle *)

\* the number x lies in the closed interval from lo to hi
InRange(x, lo, hi) == GreaterEq(x, DoubleOfInt(lo)) /\ GreaterEq(DoubleOfInt(hi), x)

\* C14: whatever the batch, from no detection to ManyDetections detections and
\* with boxes smaller or larger than the frame, the published density and every
\* published collisionRisk are in [0,1] and the published lane score is in
\* [0,100].
C14_PublishedValuesInRange ==
    /\ InRange(trafficFlow.density, 0, 1)
    /\ \A i \in 1..Len(detectedVehicles) :
          InRange(detectedVehicles[i].collisionRisk, 0, 1)
    /\ InRange(laneData.score, 0, 100)

\* the cycle of the batch of ManyDetections detections, one of them larger
\* than the frame, with a lane score that was drawn
C14_Witness ==
    /\ cycleDone
    /\ Len(detectedVehicles) = ManyDetections
    /\ \E i \in 1..Len(detectedVehicles) :
          Greater(Times(detectedVehicles[i].bbox[3], detectedVehicles[i].bbox[4]),
                  DoubleOfInt(cycleIn.video.videoWidth * cycleIn.video.videoHeight))
    /\ Less(laneData.score, HundredPercent)

\* the box of the vehicle record covers 40% of the frame and its vertical
\* centre is in the lower half of the frame
LargeAndLow(v, video) ==
    /\ NumEq(Times(Times(v.bbox[3], v.bbox[4]), DoubleOfInt(10)),
             DoubleOfInt(4 * video.videoWidth * video.videoHeight))
    /\ Greater(Plus(Times(v.bbox[2], DoubleOfInt(2)), v.bbox[4]), DoubleOfInt(video.videoHeight))

\* C15: a vehicle whose box is 40% of the frame area and whose vertical centre
\* is in the lower half of the frame is published as approaching with a
\* collisionRisk above 0.5.
C15_LargeLowVehicleApproaches ==
    cycleDone =>
        \A i \in 1..Len(detectedVehicles) :
            LargeAndLow(detectedVehicles[i], cycleIn.video)
            => /\ detectedVehicles[i].trajectory = "approaching"
               /\ Greater(detectedVehicles[i].collisionRisk, OneHalf)

\* a cycle whose only detection is such a vehicle
C15_Witness ==
    /\ cycleDone
    /\ Len(cycleIn.detectedObjects) = 1
    /\ Len(detectedVehicles) = 1
    /\ LargeAndLow(detectedVehicles[1], cycleIn.video)

\* C16: two runs of the lane estimator on the same detections, frame geometry
\* and scan-line pixels give the same position, idealPosition and score.
C16_LaneRunsAgree ==
    laneAgain.done =>
        /\ laneAgain.laneData.position = laneData.position
        /\ laneAgain.laneData.idealPosition = laneData.idealPosition
        /\ NumEq(laneAgain.laneData.score, laneData.score)

\* C17: the last run of the effect invoked the callback once for each vehicle
\* of the published list with collisionRisk > 0.7 when monitoring is enabled,
\* for no other vehicle, and not at all when monitoring is disabled.
C17_HighRiskCallbackExactly ==
    ~effectPending =>
    /\ \A k \in 1..Len(highRiskCalls) :
          /\ isEnabled
          /\ Greater(highRiskCalls[k].collisionRisk, SevenTenths)
          /\ \E i \in 1..Len(detectedVehicles) : detectedVehicles[i] = highRiskCalls[k]
    /\ isEnabled =>
          /\ \A i \in 1..Len(detectedVehicles) :
                Greater(detectedVehicles[i].collisionRisk, SevenTenths)
                => \E k \in 1..Len(highRiskCalls) : highRiskCalls[k] = detectedVehicles[i]
          /\ Len(highRiskCalls) =
                Cardinality({i \in 1..Len(detectedVehicles) :
                                Greater(detectedVehicles[i].collisionRisk, SevenTenths)})

\* monitoring enabled, a list with one vehicle at exactly 0.7 and one above
\* it, and the effect has run on it
C17_Witness ==
    /\ isEnabled
    /\ effectRuns > 0
    /\ ~effectPending
    /\ Len(detectedVehicles) = 2
    /\ NumEq(detectedVehicles[1].collisionRisk, SevenTenths)
    /\ Greater(detectedVehicles[2].collisionRisk, SevenTenths)
    /\ Len(highRiskCalls) = 1

-----------------------------------------------------------------------------
(* Two streams *)

\* the calls of both streams
StreamCalls ==
    UNION {{streamLog[s][i] : i \in 1..Len(streamLog[s])} : s \in Streams}

-----------------------------------------------------------------------------
(* The matched track *)

\* the IoU of the detection of matchArgs and the previous track at index o
MatchIoU(o) ==
    calculateIoU(matchArgs.detection.bbox, matchArgs.previousDetections[o].bbox)

\* the indices of the previous tracks whose IoU exceeds iouThreshold
AboveThreshold ==
    {o \in 1..Len(matchArgs.previousDetections) :
        Greater(MatchIoU(o), matchArgs.iouThreshold)}

\* j is the first of the tracks of the set candidates with the highest IoU
FirstHighest(j, candidates) ==
    /\ j \in candidates
    /\ \A o \in candidates :
          /\ ~Greater(MatchIoU(o), MatchIoU(j))
          /\ o < j => Less(MatchIoU(o), MatchIoU(j))

\* C19 as stated: the matched track is the one with the highest IoU among
\* the previous tracks whose IoU exceeds iouThreshold, the first of them in
\* the order of the previous set when several share the highest IoU (and
\* there is no match when no IoU exceeds the threshold)
C19_HighestAboveThresholdFirstOfTies ==
    matchResult.done =>
        IF AboveThreshold = {} THEN matchResult.bestMatch = 0
        ELSE FirstHighest(matchResult.bestMatch, AboveThreshold)

\* C19 amended: the matched track is the one with the highest IoU among the
\* previous tracks whose IoU exceeds iouThreshold and is greater than 0, the
\* first of them in the order of the previous set when several share the
\* highest IoU; there is no match when there is no such track
C19_HighestAboveThresholdAndZero ==
    matchResult.done =>
        LET candidates == {o \in AboveThreshold : Greater(MatchIoU(o), Num(0))}
        IN  IF candidates = {} THEN matchResult.bestMatch = 0
            ELSE FirstHighest(matchResult.bestMatch, candidates)

\* under the default threshold two different tracks share the highest IoU,
\* above the threshold, and the first of them is the match, a track of lower
\* IoU standing before it
C19_Witness ==
    /\ matchResult.done
    /\ matchResult.bestMatch = 2
    /\ Len(matchArgs.previousDetections) = 3
    /\ matchArgs.previousDetections[2].bbox # matchArgs.previousDetections[3].bbox
    /\ NumEq(MatchIoU(2), MatchIoU(3))
    /\ Less(MatchIoU(1), MatchIoU(2))
    /\ matchArgs.iouThreshold = DefaultIouThreshold
    /\ 2 \in AboveThreshold

-----------------------------------------------------------------------------
(* The entry of a matched detection *)

\* the batch of the last call
CurrentDetections ==
    IF fed = <<>> THEN <<>> ELSE Batch(fed[Len(fed)])

\* C20: the entry returned for a current detection that matches a track has
\* the matched track's trackId, the current detection's bbox,
\* framesDetected one more than the matched track's, and lastSeen = now
C20_MatchedEntryUpdated ==
    \A k \in 1..Len(matchOf) :
        matchOf[k] # 0 =>
            /\ tracks[k].trackId = prevIn[matchOf[k]].trackId
            /\ tracks[k].bbox = CurrentDetections[k].bbox
            /\ tracks[k].framesDetected = prevIn[matchOf[k]].framesDetected + 1
            /\ tracks[k].lastSeen = now

\* a detection matched a track seen twice before whose box differs from the
\* detection's
C20_Witness ==
    \E k \in 1..Len(matchOf) :
        /\ matchOf[k] # 0
        /\ prevIn[matchOf[k]].bbox # CurrentDetections[k].bbox
        /\ prevIn[matchOf[k]].framesDetected = 2
        /\ prevIn[matchOf[k]].lastSeen < now
        /\ tracks[k].bbox = CurrentDetections[k].bbox
        /\ tracks[k].framesDetected = 3

-----------------------------------------------------------------------------
(* C21..C23: new tracks, tracks carried forward, the arguments *)

\* the number of the current detections before the k-th that matched no track
UnmatchedBefore(k) == Cardinality({i \in 1..(k - 1) : Unmatched(i)})

\* C21: each current detection that matches no track gets one newly allocated
\* trackId with framesDetected = 1 and lastSeen = now; the ids allocated in
\* one frame are pairwise distinct, consecutive in the order of the
\* detections, and start at 1 + the largest trackId of the previous set (at 1
\* when the previous set is empty).
C21_NewTracksConsecutive ==
    /\ \A k \in 1..Len(curIn) :
          Unmatched(k) =>
             /\ tracks[k].trackId = MaxTrackId(prevIn, 1) + 1 + UnmatchedBefore(k)
             /\ tracks[k].framesDetected = 1
             /\ tracks[k].lastSeen = now
    /\ \A k, l \in 1..Len(curIn) :
          (Unmatched(k) /\ Unmatched(l) /\ k # l)
          => tracks[k].trackId # tracks[l].trackId

\* a call on a previous set that holds tracks in which two detections match
\* no track and get the two ids after the largest of the previous set
C21_Witness ==
    /\ prevIn # <<>>
    /\ Len(fed) >= 2
    /\ fed[1] # <<>>
    /\ Len(curIn) = 2
    /\ Unmatched(1)
    /\ Unmatched(2)
    /\ tracks[2].trackId = tracks[1].trackId + 1
    /\ tracks[1].trackId > 1

\* the entries a and b have the same trackId, bbox, framesDetected and lastSeen
SameTrack(a, b) ==
    /\ a.trackId = b.trackId
    /\ a.bbox = b.bbox
    /\ a.framesDetected = b.framesDetected
    /\ a.lastSeen = b.lastSeen

\* C22: a track of the previous set that no current detection matched and
\* whose age now - lastSeen is below the window appears in the returned set
\* exactly once, with its trackId, bbox, framesDetected and lastSeen unchanged.
C22_UnmatchedValidCarriedForward ==
    \A j \in 1..Len(prevIn) :
        (NotMatchedBy(j) /\ ~Expired(prevIn[j], now))
        => Cardinality({i \in 1..Len(tracks) : SameTrack(tracks[i], prevIn[j])}) = 1

\* the objects that existed as the last call began
ArgumentHeap == 1..Len(before.heap)

\* C23: trackDetections has no side effect on its arguments: after a call,
\* every object that existed as the call began (the array of previous
\* tracks and every track in it, the array of current detections and every
\* detection in it) is what it was, and the returned array and every entry
\* of it are objects the call created.
C23_ArgumentsUnchanged ==
    /\ Len(heap) >= Len(before.heap)
    /\ \A r \in ArgumentHeap : heap[r] = before.heap[r]
    /\ returned > 1 =>
          /\ returned \notin ArgumentHeap
          /\ \A i \in 1..Len(heap[returned]) : heap[returned][i] \notin ArgumentHeap

\* a call matched a detection to a previous track and carried another
\* previous track forward: the returned array holds the updated entry and a
\* copy of the carried track, and the arguments hold the tracks as they were
C23_Witness ==
    /\ returned > 1
    /\ Len(heap[before.previousDetections]) >= 1
    /\ Len(heap[before.currentDetections]) >= 1
    /\ \E i \in 1..Len(heap[returned]) : heap[heap[returned][i]].framesDetected = 2
    /\ \E i \in 1..Len(heap[returned]) :
          /\ heap[heap[returned][i]].lastSeen < now
          /\ heap[returned][i] \notin ArgumentHeap
    /\ \A r \in ArgumentHeap : heap[r] = before.heap[r]

-----------------------------------------------------------------------------
(* C24: the loop while playback is off *)

\* C24: once playback is paused or the webcam is stopped, and until it is
\* resumed, no cycle of detectObjects runs past its guard and nothing is
\* published: a step that begins and ends with isPlaying false leaves the
\* published detections and the record of the last cycle as they were, even
\* if a detector call was pending when playback went off.
C24_NothingPublishedWhilePaused ==
    [][(~isPlaying /\ ~isPlaying') =>
          (detections' = detections /\ lastFrame' = lastFrame)]_vars

-----------------------------------------------------------------------------
(* C25..C30: the lane state, the traffic flow and the risk records of a cycle *)

\* the lane record of the position published, for the batch of the cycle
\* and the values drawn in it
LaneOfBatch ==
    LaneRecord(laneData.position,
               IdealPosition(cycleIn.detectedObjects, laneData.position,
                             cycleIn.video),
               draws.deviation, draws.score)

\* C25: the idealPosition and the score of the lane state a cycle publishes
\* are those of the detections the detector produced in that cycle, whatever
\* detection set an earlier frame or render has left.
C25_LaneStateFromCurrentBatch ==
    (cycleDone /\ cycleIn.ctx) =>
        /\ laneData.idealPosition = LaneOfBatch.idealPosition
        /\ NumEq(laneData.score, LaneOfBatch.score)

\* vehicleCount (lines 447-448 of part_003, lines 69-72 of yoloDetection.ts)
VehicleCount(dets) ==
    Len(SelectSeq(dets, LAMBDA d : toLowerCase(d.class) \in vehicleClasses))

\* C26: the density a cycle publishes in trafficFlow is min(1, vehicleCount/10)
\* for the vehicle-class detections of the batch of the cycle.
C26_PublishedDensityOfCount ==
    cycleDone =>
        NumEq(trafficFlow.density,
              MathMin(DoubleOfInt(1),
                      Divide(DoubleOfInt(VehicleCount(cycleIn.detectedObjects)),
                             DoubleOfInt(10))))

\* max(10, 80 - density * 70) for density = min(1, vehicleCount / 10), in
\* binary64
SpeedOfCount(vehicleCount) ==
    MathMax(DoubleOfInt(10),
            Minus(DoubleOfInt(80),
                  Times(MathMin(DoubleOfInt(1),
                                Divide(DoubleOfInt(vehicleCount), DoubleOfInt(10))),
                        DoubleOfInt(70))))

\* C27: on every detection list, the speed analyzeTrafficFlow publishes and
\* the averageSpeed detectTrafficFlow returns are both
\* max(10, 80 - density * 70) with density = min(1, vehicleCount / 10), so
\* they agree, are 80 for no vehicle and 10 for ten vehicles or more.
C27_SpeedFunctionsAgree ==
    flowResult.done =>
        /\ NumEq(flowResult.feed.speed, SpeedOfCount(VehicleCount(flowArgs)))
        /\ NumEq(flowResult.utility.averageSpeed,
                 SpeedOfCount(VehicleCount(flowArgs)))
        /\ NumEq(flowResult.feed.speed, flowResult.utility.averageSpeed)
        /\ VehicleCount(flowArgs) = 0 => NumEq(flowResult.utility.averageSpeed, DoubleOfInt(80))
        /\ VehicleCount(flowArgs) >= 10 => NumEq(flowResult.utility.averageSpeed, DoubleOfInt(10))

\* C28: the congestion label of the published trafficFlow is the one of the
\* density the same record carries: high exactly when density > 0.7, medium
\* exactly when 0.3 < density <= 0.7, low exactly when density <= 0.3.
C28_CongestionAgreesWithDensity ==
    /\ trafficFlow.congestion = "high" <=> Greater(trafficFlow.density, SevenTenths)
    /\ trafficFlow.congestion = "medium" <=>
          ( /\ Greater(trafficFlow.density, ThreeTenths)
            /\ GreaterEq(SevenTenths, trafficFlow.density) )
    /\ trafficFlow.congestion = "low" <=> GreaterEq(ThreeTenths, trafficFlow.density)

\* r * 2.5 * k in binary64 for the box of the vehicle record, r the share of
\* the frame the box covers, k = 1.5 for an approaching vehicle and 1
\* otherwise
RiskOfRecord(v, video) ==
    Times(Times(Divide(Times(v.bbox[3], v.bbox[4]),
                       DoubleOfInt(video.videoWidth * video.videoHeight)),
                TwoAndAHalf),
          IF v.trajectory = "approaching" THEN OneAndAHalf ELSE DoubleOfInt(1))

\* width and height of the box, trajectory and collisionRisk of each
\* published vehicle record
RiskProfiles ==
    { [width |-> detectedVehicles[i].bbox[3],
       height |-> detectedVehicles[i].bbox[4],
       trajectory |-> detectedVehicles[i].trajectory,
       collisionRisk |-> detectedVehicles[i].collisionRisk] :
        i \in 1..Len(detectedVehicles) }

\* the boxes of the two vehicle records have the same width and height
SameBoxSize(v, w) == NumEq(v.width, w.width) /\ NumEq(v.height, w.height)

\* C29: every published vehicle record has collisionRisk =
\* clamp(r * 2.5 * k, 0, 1), and of two records with boxes of one size an
\* approaching one never has the lower collisionRisk.
C29_CollisionRiskFormula ==
    cycleDone =>
        /\ \A i \in 1..Len(detectedVehicles) :
              NumEq(detectedVehicles[i].collisionRisk,
                    ClampRisk(RiskOfRecord(detectedVehicles[i], cycleIn.video)))
        /\ \A v, w \in RiskProfiles :
              (SameBoxSize(v, w) /\ v.trajectory = "approaching")
              => GreaterEq(v.collisionRisk, w.collisionRisk)

\* a cycle that published an approaching and a departing vehicle with boxes
\* of one size, the risk of the approaching one 1.5 times the other
C29_Witness ==
    /\ cycleDone
    /\ \E v, w \in RiskProfiles :
          /\ SameBoxSize(v, w)
          /\ v.trajectory = "approaching"
          /\ w.trajectory = "departing"
          /\ Greater(w.collisionRisk, DoubleOfInt(0))
          /\ NumEq(v.collisionRisk, Times(w.collisionRisk, OneAndAHalf))

\* verticalPosition (lines 255-257) of the box of each published vehicle
\* record, with the trajectory of the record
VerticalProfiles ==
    { [verticalPosition |->
           Divide(Plus(detectedVehicles[i].bbox[2],
                       Divide(detectedVehicles[i].bbox[4], DoubleOfInt(2))),
                  DoubleOfInt(cycleIn.video.videoHeight)),
       trajectory |-> detectedVehicles[i].trajectory] :
        i \in 1..Len(detectedVehicles) }

\* C30: every published vehicle record has one of the three trajectories:
\* approaching when v > 0.5, parallel when 0.3 < v < 0.5, departing when
\* v < 0.3, for v the vertical centre of its box over the frame height; a
\* record with v = 0.5 or v = 0.3 has one of the three as well.
C30_TrajectoryByVerticalPosition ==
    cycleDone =>
        \A p \in VerticalProfiles :
            /\ p.trajectory \in {"approaching", "parallel", "departing"}
            /\ Greater(p.verticalPosition, OneHalf) => p.trajectory = "approaching"
            /\ ( /\ Greater(p.verticalPosition, ThreeTenths)
                 /\ Less(p.verticalPosition, OneHalf) ) => p.trajectory = "parallel"
            /\ Less(p.verticalPosition, ThreeTenths) => p.trajectory = "departing"

\* a cycle that published vehicles on both lines, above them, between them
\* and below them
C30_Witness ==
    /\ cycleDone
    /\ \E p \in VerticalProfiles :
          NumEq(p.verticalPosition, OneHalf) /\ p.trajectory = "parallel"
    /\ \E p \in VerticalProfiles :
          NumEq(p.verticalPosition, ThreeTenths) /\ p.trajectory = "departing"
    /\ \E p \in VerticalProfiles :
          Greater(p.verticalPosition, OneHalf) /\ p.trajectory = "approaching"

-----------------------------------------------------------------------------
(* C31: the distance of a vehicle record *)

\* boxArea (line 242) of the box
BoxArea(bbox) == Times(bbox[3], bbox[4])

\* boxArea / frameArea (line 244) is at least 0.81
CoversMostOfFrame(bbox, video) ==
    GreaterEq(Divide(BoxArea(bbox),
                     Times(DoubleOfInt(video.videoWidth),
                           DoubleOfInt(video.videoHeight))),
              DoubleOf(<<81, 100>>))

\* C31: the distance of every detection is at least 5, is 5 when its box
\* covers 81% of the frame or more, and of two detections of one frame the
\* one with the larger box area never has the larger distance.
C31_DistanceAtLeastFiveAndMonotone ==
    distanceResult.done =>
        /\ GreaterEq(distanceResult.first, DoubleOfInt(5))
        /\ GreaterEq(distanceResult.second, DoubleOfInt(5))
        /\ CoversMostOfFrame(distanceArgs.first, distanceArgs.video)
              => NumEq(distanceResult.first, DoubleOfInt(5))
        /\ Greater(BoxArea(distanceArgs.first), BoxArea(distanceArgs.second))
              => GreaterEq(distanceResult.second, distanceResult.first)

-----------------------------------------------------------------------------
(* C32: the vehicle records and the vehicle count of a cycle *)

\* the class of the detection is a vehicle class, whatever the case of its
\* letters
IsVehicle(d) == toLowerCase(d.class) \in vehicleClasses

\* id and bbox of each entry of the list, in order
IdsAndBoxes(list) == [i \in 1..Len(list) |-> <<list[i].id, list[i].bbox>>]

\* C32: the vehicle records a cycle publishes are, in order, the detections
\* of its batch with a vehicle class (compared without regard to case), each
\* with the id and the bbox of its detection and none for another class; so
\* their number is the vehicleCount of the traffic flow of the cycle.
C32_RecordsAreVehicleDetections ==
    cycleDone =>
        /\ IdsAndBoxes(detectedVehicles)
              = IdsAndBoxes(SelectSeq(cycleIn.detectedObjects, IsVehicle))
        /\ \A i \in 1..Len(detectedVehicles) :
              detectedVehicles[i].type \in vehicleClasses
        /\ Len(detectedVehicles) = VehicleCount(cycleIn.detectedObjects)
        /\ NumEq(trafficFlow.speed, SpeedOfCount(Len(detectedVehicles)))

\* a cycle whose batch holds a vehicle with a capital in its class name and a
\* detection of another class
C32_Witness ==
    /\ cycleDone
    /\ Len(cycleIn.detectedObjects) = 2
    /\ cycleIn.detectedObjects[1].class = "Car"
    /\ ~IsVehicle(cycleIn.detectedObjects[2])
    /\ Len(detectedVehicles) = 1
    /\ detectedVehicles[1].type = "car"
    /\ detectedVehicles[1].id = cycleIn.detectedObjects[1].id

-----------------------------------------------------------------------------
(* C33..C36: the lane state *)

\* C33: the published lane state has score 100 when position is
\* idealPosition, and a score of at least 60 and below 100 when it is not.
C33_ScoreByPosition ==
    /\ laneData.position = laneData.idealPosition => NumEq(laneData.score, HundredPercent)
    /\ laneData.position # laneData.idealPosition =>
          /\ GreaterEq(laneData.score, DoubleOfInt(60))
          /\ Less(laneData.score, HundredPercent)

\* the x of the scan line of the cycle whose sample has brightness > 200
BrightSamples ==
    {x \in 0..(cycleIn.video.videoWidth - 1) :
        cycleIn.scan[x + 1][1] + cycleIn.scan[x + 1][2] + cycleIn.scan[x + 1][3]
            > 600}

\* the position is left iff left > center and left > right, right iff
\* right > center and right > left, and centered in every other case
PluralityWithCenterOnTies(position, left, center, right) ==
    /\ position = "left" <=> (left > center /\ left > right)
    /\ position = "right" <=> (right > center /\ right > left)
    /\ position = "centered" <=>
          ~(left > center /\ left > right) /\ ~(right > center /\ right > left)

\* C34 as stated: with the left region the x below 30% of the width, the
\* right region the x above 70% and the center region the others, the
\* published position is the region with the most bright samples, and
\* centered on a tie for the most and without a bright sample.
C34_PositionByThirtyAndSeventyPercent ==
    (cycleDone /\ cycleIn.ctx) =>
        PluralityWithCenterOnTies(
            laneData.position,
            Cardinality({x \in BrightSamples : 10 * x < 3 * cycleIn.video.videoWidth}),
            Cardinality({x \in BrightSamples :
                            /\ 10 * x >= 3 * cycleIn.video.videoWidth
                            /\ 10 * x <= 7 * cycleIn.video.videoWidth}),
            Cardinality({x \in BrightSamples : 10 * x > 7 * cycleIn.video.videoWidth}))

\* the published position is the plurality region of the bright samples
\* for the regions x < leftRegion, x > rightRegion and the others
PositionOfRegions(leftRegion, rightRegion) ==
    PluralityWithCenterOnTies(
        laneData.position,
        Cardinality({x \in BrightSamples : x < leftRegion}),
        Cardinality({x \in BrightSamples : x >= leftRegion /\ x <= rightRegion}),
        Cardinality({x \in BrightSamples : x > rightRegion}))

\* C34, amended: with the left region the x below floor(width * 0.3), the
\* right region the x above floor(width * 0.7), both products rounded to
\* binary64, and the center region the others, the published position is the
\* region with the most bright samples, and centered on a tie for the most
\* and without a bright sample.
C34_PositionByFlooredRegions ==
    (cycleDone /\ cycleIn.ctx) =>
        PositionOfRegions(LeftRegion(cycleIn.video.videoWidth),
                          RightRegion(cycleIn.video.videoWidth))

\* a cycle on the frame of width 90 whose only bright sample is at x = 63,
\* 70% of the width: the position published is right
C34_Witness ==
    /\ cycleDone
    /\ cycleIn.ctx
    /\ cycleIn.video.videoWidth = 90
    /\ BrightSamples = {63}
    /\ RightRegion(90) = 62
    /\ laneData.position = "right"

\* the number of detections whose horizontal centre is left of 40% of the
\* width (lines 405-409), and right of 60% of it (lines 411-415)
LeftVehicles(dets, video) ==
    Len(SelectSeq(dets, LAMBDA d : Less(RelativeX(d, video), FourTenths)))

RightVehicles(dets, video) ==
    Len(SelectSeq(dets, LAMBDA d : Greater(RelativeX(d, video), SixTenths)))

\* C35: the published idealPosition is centered if a vehicle of the
\* detection set the estimator reads has its horizontal centre in the region
\* of the published position; otherwise, if the set is not empty, it is the
\* one of left and right with fewer detections; and right if the set is
\* empty.
C35_IdealPositionRule ==
    (cycleDone /\ cycleIn.ctx) =>
        IF Len(VehiclesAhead(cycleIn.detections, laneData.position, cycleIn.video)) > 0
        THEN laneData.idealPosition = "centered"
        ELSE IF cycleIn.detections # <<>>
        THEN /\ laneData.idealPosition \in {"left", "right"}
             /\ LeftVehicles(cycleIn.detections, cycleIn.video)
                   < RightVehicles(cycleIn.detections, cycleIn.video)
                => laneData.idealPosition = "left"
             /\ RightVehicles(cycleIn.detections, cycleIn.video)
                   < LeftVehicles(cycleIn.detections, cycleIn.video)
                => laneData.idealPosition = "right"
        ELSE laneData.idealPosition = "right"

\* C36: when the detection set the estimator reads holds a car, truck, bus
\* or motorcycle whose horizontal centre is in the region of the published
\* position, the published idealPosition is another position; when it holds
\* none, idealPosition is right.
C36_LaneChangeSuggestedWithVehicleAhead ==
    (cycleDone /\ cycleIn.ctx) =>
        IF Len(VehiclesAhead(cycleIn.detections, laneData.position, cycleIn.video)) > 0
        THEN laneData.idealPosition # laneData.position
        ELSE laneData.idealPosition = "right"

\* a cycle in the centre lane with a vehicle ahead, and a side suggested
C36_Witness ==
    /\ cycleDone
    /\ cycleIn.ctx
    /\ laneData.position = "centered"
    /\ Len(VehiclesAhead(cycleIn.detections, "centered", cycleIn.video)) > 0
    /\ laneData.idealPosition \in {"left", "right"}

-----------------------------------------------------------------------------
(* C37: framesDetected over a tracking session *)

\* entry i of the returned list was made from a detection of the frame
\* (lines 253-283); the entries after those were carried forward (lines
\* 286-298)
FromDetection(i) == i <= Len(matchOf)

\* C37: every entry trackDetections returns has framesDetected >= 1, and an
\* entry whose trackId was in the previous set has the framesDetected of
\* that track plus 1 if it was matched in this frame, and the same
\* framesDetected if it was carried forward; so the count of a track never
\* decreases from one frame to the next.
C37_FramesDetectedNeverDecreases ==
    /\ \A i \in 1..Len(tracks) : tracks[i].framesDetected >= 1
    /\ \A i \in 1..Len(tracks), j \in 1..Len(prevIn) :
          tracks[i].trackId = prevIn[j].trackId =>
             /\ tracks[i].framesDetected >= prevIn[j].framesDetected
             /\ FromDetection(i) =>
                   tracks[i].framesDetected = prevIn[j].framesDetected + 1
             /\ ~FromDetection(i) =>
                   tracks[i].framesDetected = prevIn[j].framesDetected

\* a frame that matched a track seen twice before and carried forward
\* another one
C37_Witness ==
    /\ Len(fed) >= 3
    /\ \E i \in 1..Len(tracks), j \in 1..Len(prevIn) :
          /\ FromDetection(i)
          /\ tracks[i].trackId = prevIn[j].trackId
          /\ prevIn[j].framesDetected = 2
          /\ tracks[i].framesDetected = 3
    /\ \E i \in 1..Len(tracks), j \in 1..Len(prevIn) :
          /\ ~FromDetection(i)
          /\ tracks[i].trackId = prevIn[j].trackId
          /\ tracks[i].framesDetected = prevIn[j].framesDetected

-----------------------------------------------------------------------------
(* C38, C39: the destination after an emergency, the simulation after a     *)
(* route is removed                                                         *)

\* C38: for any sequence of destination edits, route cancellations,
\* emergency navigations and emergency deactivations, the step that
\* deactivates emergency navigation leaves navigationState.destination at the
\* value it had immediately before emergency navigation was activated, the
\* empty destination when there was none at that moment.
C38_DeactivationRestoresDestination ==
    [][(app.emergencyNavigationActive /\ ~app'.emergencyNavigationActive) =>
          app'.navigationState.destination = destinationAtActivation]_vars

\* C39: once the active route is removed, by the Cancel button or by an
\* emergency:clear event, and until a route is calculated again, no step
\* changes progressPercent, sets destinationReached or shows the toast of
\* the arrival.
C39_SimulationStopsWithRoute ==
    [][(~app.routeActive /\ ~app'.routeActive) =>
          /\ app'.progressPercent = app.progressPercent
          /\ app'.destinationReached => app.destinationReached
          /\ app'.arrivalToast => app.arrivalToast]_vars

\* emergency navigation is active from no destination while a destination
\* saved by an earlier episode is still held
StalePreviousDestination ==
    /\ ~Queued(World)
    /\ mapEffects = {}
    /\ app.isEmergencyActive
    /\ app.emergencyNavigationActive
    /\ destinationAtActivation = ""
    /\ app.navigationState.previousDestination # NoPrevious

\* the arrival was announced with no route active
ArrivalWithoutRoute ==
    ~app.routeActive /\ app.destinationReached /\ app.arrivalToast

=============================================================================
